---- MODULE Spec2Model ----
(***************************************************************************)
(* Metrics exporter sidecar (agent/helm/image/custom_metics_exporter.py):  *)
(* the circuit breaker, the metrics cache, the retrying fetcher and the    *)
(* drain flags, as a state machine over an integer clock of seconds.       *)
(***************************************************************************)
EXTENDS Integers, Sequences, FiniteSets, TLC

(***************************************************************************)
(* Bounds of the model.                                                    *)
(***************************************************************************)
\* CircuitBreaker(failure_threshold=T, recovery_timeout=R) is built with
\* T in 1..MaxThreshold and R in 0..MaxRecovery in the breaker-only
\* specification.
MaxThreshold == 3
MaxRecovery == 2
\* The clock of the breaker-only specification stops at MaxClockCB.
MaxClockCB == 5
\* No more than MaxFailedCalls failing operations per breaker-only run.
MaxFailedCalls == 4
\* A wrapped operation takes 0..MaxCallTime seconds.
MaxCallTime == 1
\* The exporter's clock stops at MaxClock.
MaxClock == 34
\* Under repeated signals the clock stops at MaxClockSignals.
MaxClockSignals == 10
\* MAX_RETRY_ATTEMPTS is configured up to MaxAttempts, RETRY_DELAY up to
\* MaxDelay and GRACE_PERIOD_SECONDS up to MaxGrace.
MaxAttempts == 4
MaxDelay == 2
MaxGrace == 2
\* No attempt fails once the 'fetch' failure counter has reached
\* MaxFetchFailures.
MaxFetchFailures == 11
\* No more than MaxSignals termination signals are delivered.
MaxSignals == 2
\* convert_to_prometheus is applied to a payload up to MaxTranslations times.
MaxTranslations == 2
\* The clock of the request threads runs from 0 to MaxClockRace.
MaxClockRace == 2
\* The clock of the server loop stops at MaxClockAccept.
MaxClockAccept == 2
\* Behind the server loop MAX_RETRY_ATTEMPTS is configured as
\* MaxAttemptsAccept.
MaxAttemptsAccept == 2
\* Largest failure threshold and recovery timeout of a breaker called by
\* several threads.
MaxProbeThreshold == 2
MaxProbeRecovery == 1
\* Most agent tasks that a discovery returns.
MaxAgents == 2
\* No more than MaxConnections connections are made to the server.
MaxConnections == 2

(***************************************************************************)
(* Program constants.                                                      *)
(***************************************************************************)
\* Python's None, for a timestamp that has not been set.
None == -1
\* CircuitBreaker.__init__ defaults.
DefaultFailureThreshold == 5
DefaultRecoveryTimeout == 30
\* metrics_cache_ttl (line 64).
metrics_cache_ttl == 30
\* The retry budget while draining (lines 118-119).
DrainingMaxAttempts == 3
DrainingRetryDelay == 1
\* The failure count from which stale data is served (line 159).
StaleFailures == 3
\* Seconds the drain loop sleeps after a poll answered 200 (line 91).
PollPause == 1
\* The failure count above which /health reports failure (line 213).
HealthFailureLimit == 10
\* Python's None, for a metrics document that is absent.
NoMetrics == "None"
\* The exceptions fetch_metrics raises itself (lines 130 and 150).
ShutdownAtAttempt == "Shutdown initiated, stopping metrics fetch"
ShutdownDuringWait == "Shutdown initiated during retry wait"
\* Seconds an upstream request of fetch_metrics may take.
RequestTimes == {0, 1}
\* Seconds between two requests when nothing is running.
IdleGaps == {29, 30}
\* Line 88: the timeout of a poll, in seconds.
PollTimeout == 5

\* The seconds a poll may take.
PollTimes == {0, 1, PollTimeout}

\* What a drain poll of the upstream can give: a status code, or an exception.
PollResults == {"200", "503", "RequestException"}

\* The message of the exception the breaker raises itself (line 35).
CircuitOpenError == "Circuit breaker is OPEN"
\* What a wrapped operation may raise, and what it may return.
OpErrors == {"ConnectionError", "HTTPError"}
OpResults == {"docA", "docB"}
\* Documents an upstream may serve that are not what the translator expects:
\* a mapping whose buildInfo is null, and a JSON list.
MalformedDocs == {"docNullBuildInfo", "docList"}

VARIABLES
  now,              \* time.time(), in whole seconds
  circuit_breaker,  \* the CircuitBreaker object: its five attributes
  cb_last,          \* observation (breaker alone): the last call, start to end
  cb_hist,          \* observation (breaker alone): operations failed/succeeded
  MAX_RETRY_ATTEMPTS,       \* configuration read from the environment
  RETRY_DELAY,
  GRACE_PERIOD_SECONDS,
  shutdown_event,           \* threading.Event: set or not
  agent_draining,
  last_successful_metrics,  \* the cache entry: document ...
  last_metrics_time,        \* ... and the time it was fetched
  healthcheck_failures,     \* defaultdict(int); the key in use is 'fetch'
  fetch,            \* the request thread inside fetch_metrics: position, locals
  fetch_obs,        \* observation: the last fetch_metrics call, start to end
  drain,            \* the main thread inside signal_handler: position, locals
  health_obs,       \* observation: the response of the last /health request
  payload,          \* the value handed to convert_to_prometheus
  translated,       \* observation: the outcomes of its translations, in order
  threads,          \* request threads inside fetch_metrics, statement by statement
  race_obs,         \* observation: what those threads did and saw
  backlog,          \* connections waiting to be accepted by the server loop
  monitor           \* the saturation monitor Lambda: position, locals, results

cbVars == <<circuit_breaker, cb_last, cb_hist>>
configVars == <<MAX_RETRY_ATTEMPTS, RETRY_DELAY, GRACE_PERIOD_SECONDS>>
flagVars == <<shutdown_event, agent_draining>>
cacheVars == <<last_successful_metrics, last_metrics_time>>
fetchVars == <<fetch, fetch_obs>>
translatorVars == <<payload, translated>>
threadVars == <<threads, race_obs>>
sideVars == <<translatorVars, threadVars, backlog, monitor>>
exporterVars ==
  <<configVars, flagVars, cacheVars, healthcheck_failures, fetchVars, drain,
    health_obs, sideVars>>
vars == <<now, cbVars, exporterVars>>

(***************************************************************************)
(* class CircuitBreaker                                                    *)
(***************************************************************************)
\* __init__: a fresh breaker.
CircuitBreaker(threshold, timeout) ==
  [ failure_threshold |-> threshold,
    recovery_timeout  |-> timeout,
    failure_count     |-> 0,
    last_failure_time |-> None,
    state             |-> "CLOSED" ]

\* An operation handed to call(): whether it returns or raises, the value
\* returned or the error raised, and how long it runs.
Operations ==
  [ok : {TRUE}, val : OpResults, dur : 0..MaxCallTime]
    \cup [ok : {FALSE}, val : OpErrors, dur : 0..MaxCallTime]

\* CallGate with the timeout test written >= (admits at exactly the timeout).
CallGate_AdmitAtTimeout(cb, t) ==
  IF cb.state = "OPEN"
    THEN IF t - cb.last_failure_time >= cb.recovery_timeout
           THEN "HALF_OPEN"
           ELSE "REJECT"
    ELSE cb.state

\* CallGate that lets one trial through: a call that finds the breaker
\* HALF_OPEN is rejected.
CallGate_SingleProbe(cb, t) ==
  IF cb.state = "OPEN"
    THEN IF t - cb.last_failure_time > cb.recovery_timeout
           THEN "HALF_OPEN"
           ELSE "REJECT"
    ELSE IF cb.state = "HALF_OPEN" THEN "REJECT" ELSE cb.state

\* call(), lines 30-35: the gate in front of the operation.  Gives the state
\* the operation is invoked in, or "REJECT" when the breaker raises instead.
CallGate(cb, t) ==
  IF cb.state = "OPEN"
    THEN IF t - cb.last_failure_time > cb.recovery_timeout
           THEN "HALF_OPEN"
           ELSE "REJECT"
    ELSE cb.state

\* CallSuccess that closes the breaker but keeps the failure count.
CallSuccess_KeepCount(cb, st) ==
  IF st = "HALF_OPEN"
    THEN [cb EXCEPT !.state = "CLOSED"]
    ELSE [cb EXCEPT !.state = st]

\* call(), lines 38-43: the operation returned while the state was st.
CallSuccess(cb, st) ==
  IF st = "HALF_OPEN"
    THEN [cb EXCEPT !.state = "CLOSED", !.failure_count = 0]
    ELSE [cb EXCEPT !.state = st]

\* CallFailure that opens one failure late (> instead of >=).
CallFailure_OpenLate(cb, st, t) ==
  LET count == cb.failure_count + 1
  IN [cb EXCEPT !.failure_count = count,
                !.last_failure_time = t,
                !.state = IF count > cb.failure_threshold THEN "OPEN" ELSE st]

\* CallFailure that opens on any failure, whatever the count.
CallFailure_OpenAlways(cb, st, t) ==
  [cb EXCEPT !.failure_count = cb.failure_count + 1,
             !.last_failure_time = t,
             !.state = "OPEN"]

\* call(), lines 44-51: the operation raised, at time t, while the state was st.
CallFailure(cb, st, t) ==
  LET count == cb.failure_count + 1
  IN [cb EXCEPT !.failure_count = count,
                !.last_failure_time = t,
                !.state = IF count >= cb.failure_threshold THEN "OPEN" ELSE st]

\* Call whose rejection restarts the recovery timer.
Call_RejectRestartsTimer(cb, t, op) ==
  LET st == CallGate(cb, t)
  IN IF st = "REJECT"
       THEN [cb |-> [cb EXCEPT !.last_failure_time = t], invoked |-> 0,
             raised |-> TRUE, val |-> CircuitOpenError, end |-> t]
       ELSE IF op.ok
         THEN [cb |-> CallSuccess(cb, st), invoked |-> 1, raised |-> FALSE,
               val |-> op.val, end |-> t + op.dur]
         ELSE [cb |-> CallFailure(cb, st, t + op.dur), invoked |-> 1,
               raised |-> TRUE, val |-> op.val, end |-> t + op.dur]

\* Call that raises the circuit-open error in place of the failure that
\* trips the breaker.
Call_MaskTrippingFailure(cb, t, op) ==
  LET st == CallGate(cb, t)
  IN IF st = "REJECT"
       THEN [cb |-> cb, invoked |-> 0, raised |-> TRUE,
             val |-> CircuitOpenError, end |-> t]
       ELSE IF op.ok
         THEN [cb |-> CallSuccess(cb, st), invoked |-> 1, raised |-> FALSE,
               val |-> op.val, end |-> t + op.dur]
         ELSE LET post == CallFailure(cb, st, t + op.dur)
              IN [cb |-> post, invoked |-> 1, raised |-> TRUE,
                  val |-> IF post.state = "OPEN" THEN CircuitOpenError
                                                 ELSE op.val,
                  end |-> t + op.dur]

\* call(func), lines 29-51, entered at time t with an operation op.  The
\* outcome: the breaker after the call, whether func was invoked (0 or 1
\* times), whether call returned or raised and what, and the time at its end.
Call(cb, t, op) ==
  LET st == CallGate(cb, t)
  IN IF st = "REJECT"
       THEN [cb |-> cb, invoked |-> 0, raised |-> TRUE,
             val |-> CircuitOpenError, end |-> t]
       ELSE IF op.ok
         THEN [cb |-> CallSuccess(cb, st), invoked |-> 1, raised |-> FALSE,
               val |-> op.val, end |-> t + op.dur]
         ELSE [cb |-> CallFailure(cb, st, t + op.dur), invoked |-> 1,
               raised |-> TRUE, val |-> op.val, end |-> t + op.dur]

\* No call observed yet.
NoCall == [seen |-> FALSE]

\* The record kept of one call: the breaker before and after, the entry time,
\* the operation and the outcome.
Observe(cb, t, op, out) ==
  [seen |-> TRUE, pre |-> cb, at |-> t, op |-> op, post |-> out.cb,
   invoked |-> out.invoked, raised |-> out.raised, val |-> out.val,
   end |-> out.end]

\* The tally of operations that failed and whether any succeeded.
NextHist(hist, op, out) ==
  IF out.invoked = 0 THEN hist
  ELSE IF op.ok THEN [hist EXCEPT !.succeeded = TRUE]
  ELSE [hist EXCEPT !.failed = @ + 1]

(***************************************************************************)
(* Module state of the exporter (lines 55-67).                             *)
(***************************************************************************)
\* The defaults of the three environment settings (lines 56-58).
DefaultMaxRetryAttempts == 30
DefaultRetryDelay == 5
DefaultGracePeriod == 43200

\* No fetch_metrics call is running / none has been observed.
FetchIdle == [pc |-> "idle"]
NoFetch == [seen |-> FALSE]
\* No signal has been handled.
NoSignal == [pc |-> "none"]
\* No /health request has been answered.
NoHealth == [seen |-> FALSE]

\* JSON values as response.json() gives them: a mapping with its fields, or
\* a value that is not a mapping (None, a list, a string).
Obj(fields) == [kind |-> "object", fields |-> fields]
Null == [kind |-> "null"]
NonMappings == {Null, [kind |-> "array"], [kind |-> "string"]}

\* Nothing has been handed to convert_to_prometheus.
NothingTranslated ==
  /\ payload = Null
  /\ translated = <<>>

\* The request threads of the threaded server (line 264), none of them
\* started, and what they have done so far: nothing.
Threads == {"t1", "t2"}
ThreadIdle ==
  [pc |-> "idle", max_attempts |-> 0, retry_delay |-> 0, attempt |-> 0,
   seen |-> <<NoMetrics, None>>, tmp |-> None, doc |-> NoMetrics,
   stamp |-> None, wake |-> 0, err |-> NoMetrics, result |-> "none",
   st |-> "none", clock |-> None]
\* A request thread the server loop has not started yet.
ThreadNotStarted == [ThreadIdle EXCEPT !.pc = "none"]
NoRace == [failed_calls |-> 0, failed_attempts |-> 0, successes |-> 0]
NoRequestThreads ==
  /\ threads = [i \in Threads |-> ThreadIdle]
  /\ race_obs = NoRace

\* No connection is waiting to be accepted.
NoConnections == backlog = <<>>

\* The saturation monitor Lambda before an invocation: no deployment mode
\* read, no agent discovered, nothing fetched or published.
MonitorIdle ==
  [pc |-> "idle", mode |-> "none", agents |-> <<>>, index |-> 0,
   ips_to_try |-> <<>>, ip |-> 0, ep |-> 0, tried |-> <<>>,
   metrics_data |-> Null, fetched |-> <<>>, published |-> <<>>,
   results |-> [agents_discovered |-> 0, agents_monitored |-> 0,
                metrics_published |-> 0, errors |-> 0]]
NoMonitor == monitor = MonitorIdle

\* One request at a time, nothing translated outside a request, the Lambda
\* not invoked.
Alone ==
  /\ NothingTranslated
  /\ NoRequestThreads
  /\ NoConnections
  /\ NoMonitor

\* Lines 60-67, and the threads before the first request or signal.
ModuleState ==
  /\ shutdown_event = FALSE
  /\ agent_draining = FALSE
  /\ last_successful_metrics = NoMetrics
  /\ last_metrics_time = None
  /\ healthcheck_failures = [fetch |-> 0]
  /\ fetch = FetchIdle
  /\ fetch_obs = NoFetch
  /\ drain = NoSignal
  /\ health_obs = NoHealth

(***************************************************************************)
(* The breaker alone: one thread calling it, and the clock.                *)
(***************************************************************************)
InitCB ==
  /\ now = 0
  /\ \E T \in 1..MaxThreshold, R \in 0..MaxRecovery :
       circuit_breaker = CircuitBreaker(T, R)
  /\ cb_last = NoCall
  /\ cb_hist = [failed |-> 0, succeeded |-> FALSE]
  /\ MAX_RETRY_ATTEMPTS = DefaultMaxRetryAttempts
  /\ RETRY_DELAY = DefaultRetryDelay
  /\ GRACE_PERIOD_SECONDS = DefaultGracePeriod
  /\ ModuleState
  /\ Alone

\* The clock advances by a second.
TickCB ==
  /\ now < MaxClockCB
  /\ now' = now + 1
  /\ UNCHANGED <<cbVars, exporterVars>>

\* circuit_breaker.call(op)
CBCall(op) ==
  LET out == Call(circuit_breaker, now, op)
  IN /\ out.end <= MaxClockCB
     /\ (out.invoked = 1 /\ ~op.ok) => cb_hist.failed < MaxFailedCalls
     /\ circuit_breaker' = out.cb
     /\ now' = out.end
     /\ cb_last' = Observe(circuit_breaker, now, op, out)
     /\ cb_hist' = NextHist(cb_hist, op, out)
     /\ UNCHANGED exporterVars

CallAny == \E op \in Operations : CBCall(op)

NextCB == TickCB \/ CallAny

SpecCB == InitCB /\ [][NextCB]_vars

(***************************************************************************)
(* fetch_metrics (lines 114-163), one request thread at a time.            *)
(***************************************************************************)
\* MaxAttemptsFor that ignores the drain flag.
MaxAttemptsFor_Configured(draining, configured) == configured

\* MaxAttemptsFor that stops one attempt short when not draining.
MaxAttemptsFor_OneShort(draining, configured) ==
  IF draining THEN DrainingMaxAttempts
  ELSE IF configured > 1 THEN configured - 1 ELSE configured

\* Line 118: the number of attempts this call may make.
MaxAttemptsFor(draining, configured) ==
  IF draining THEN DrainingMaxAttempts ELSE configured

\* Line 119: the wait between two attempts of this call.
RetryDelayFor(draining, configured) ==
  IF draining THEN DrainingRetryDelay ELSE configured

\* CacheValid with the age test written <= (serves an entry aged exactly
\* the TTL).
CacheValid_AtTtl(doc, fetched, t) ==
  /\ doc # NoMetrics
  /\ fetched # None
  /\ t - fetched <= metrics_cache_ttl

\* Lines 122-124: the cache entry (doc, fetched) is served as it is at time t.
CacheValid(doc, fetched, t) ==
  /\ doc # NoMetrics
  /\ fetched # None
  /\ t - fetched < metrics_cache_ttl

\* ServeStale that asks for one failure more.
ServeStale_OneMore(doc, failures) ==
  doc # NoMetrics /\ failures > StaleFailures

\* ServeStale without the failure-count condition.
ServeStale_AnyCount(doc, failures) == doc # NoMetrics

\* Lines 158-159: after the last failed attempt, the cached document is
\* returned instead of the error.
ServeStale(doc, failures) ==
  doc # NoMetrics /\ failures >= StaleFailures

\* FetchSuccess that stores the entry but leaves the failure counter.
FetchSuccess_KeepFailures(doc, t) ==
  /\ last_successful_metrics' = doc
  /\ last_metrics_time' = t
  /\ UNCHANGED healthcheck_failures

\* Lines 135-139: the cache entry is replaced and the failure counter reset.
FetchSuccess(doc, t) ==
  /\ last_successful_metrics' = doc
  /\ last_metrics_time' = t
  /\ healthcheck_failures' = [healthcheck_failures EXCEPT !.fetch = 0]

\* What a fetch_metrics call finds on entry: the drain flag, the latch, the
\* cached document and the failure counter.
Snapshot ==
  [draining |-> agent_draining, latch |-> shutdown_event,
   doc |-> last_successful_metrics, failures |-> healthcheck_failures.fetch]

\* The record of a call that has just been entered: no attempt through the
\* breaker, no upstream request, no wait (waits lists the seconds each wait
\* between attempts lasted) and no error so far.
Entered(snap) ==
  [seen |-> TRUE, entry |-> snap, attempts |-> 0, invoked |-> 0,
   waits |-> <<>>, last_error |-> NoMetrics, done |-> FALSE,
   raised |-> FALSE, val |-> NoMetrics, path |-> "running"]

\* The record of a call that ends: it raised or returned val, by way of path
\* ("cache", "fresh", "stale", "error", "shutdown", "fell_off").
Finished(obs, raised, val, path) ==
  [obs EXCEPT !.done = TRUE, !.raised = raised, !.val = val, !.path = path]

\* Lines 114-126: entry, retry budget, and the cache check.
FetchEnter ==
  /\ fetch.pc = "idle"
  /\ drain.pc # "exited"
  /\ IF CacheValid(last_successful_metrics, last_metrics_time, now)
       THEN /\ fetch' = FetchIdle
            /\ fetch_obs' = Finished(Entered(Snapshot), FALSE,
                                     last_successful_metrics, "cache")
       ELSE /\ fetch' =
                 [pc |-> "loop",
                  max_attempts |->
                    MaxAttemptsFor(agent_draining, MAX_RETRY_ATTEMPTS),
                  retry_delay |-> RetryDelayFor(agent_draining, RETRY_DELAY),
                  attempt |-> 0, wake |-> 0, sent |-> 0]
            /\ fetch_obs' = Entered(Snapshot)
  /\ UNCHANGED <<now, cbVars, configVars, flagVars, cacheVars,
                 healthcheck_failures, drain, health_obs, sideVars>>

\* Line 128 with range(max_attempts) empty: the function ends without a
\* return statement, which returns None.
FetchFallOff ==
  /\ fetch.pc = "loop"
  /\ drain.pc # "exited"
  /\ fetch.attempt >= fetch.max_attempts
  /\ fetch' = FetchIdle
  /\ fetch_obs' = Finished(fetch_obs, FALSE, NoMetrics, "fell_off")
  /\ UNCHANGED <<now, cbVars, configVars, flagVars, cacheVars,
                 healthcheck_failures, drain, health_obs, sideVars>>

\* Lines 129-130: the latch is set when an attempt is about to start.
FetchAbort ==
  /\ fetch.pc = "loop"
  /\ drain.pc # "exited"
  /\ fetch.attempt < fetch.max_attempts
  /\ shutdown_event
  /\ fetch' = FetchIdle
  /\ fetch_obs' = Finished(fetch_obs, TRUE, ShutdownAtAttempt, "shutdown")
  /\ UNCHANGED <<now, cbVars, configVars, flagVars, cacheVars,
                 healthcheck_failures, drain, health_obs, sideVars>>

\* _fetch_metrics_internal (lines 108-112): what the upstream request does
\* if it is made: a JSON document, or an exception (connection, HTTP status,
\* body), after RequestTimes seconds.
Requests ==
  [ok : {TRUE}, val : OpResults, dur : RequestTimes]
    \cup [ok : {FALSE}, val : OpErrors, dur : RequestTimes]

\* AttemptFailed whose stale fallback also clears the failure counter.
AttemptFailed_StaleResets(obs, err) ==
  LET failures == healthcheck_failures.fetch + 1
      last == fetch.attempt >= fetch.max_attempts - 1
      stale == last /\ ServeStale(last_successful_metrics, failures)
      failed == [obs EXCEPT !.last_error = err]
  IN /\ healthcheck_failures.fetch < MaxFetchFailures
     /\ healthcheck_failures' =
          [healthcheck_failures EXCEPT
             !.fetch = IF stale THEN 0 ELSE failures]
     /\ UNCHANGED cacheVars
     /\ IF ~last
          THEN IF shutdown_event
                 THEN /\ fetch' = FetchIdle
                      /\ fetch_obs' = Finished(failed, TRUE,
                                               ShutdownDuringWait, "shutdown")
                 ELSE /\ fetch' = [fetch EXCEPT
                                     !.pc = "wait", !.sent = 0,
                                     !.wake = now + fetch.retry_delay]
                      /\ fetch_obs' = failed
          ELSE /\ fetch' = FetchIdle
               /\ fetch_obs' =
                    IF stale
                      THEN Finished(failed, FALSE, last_successful_metrics,
                                    "stale")
                      ELSE Finished(failed, TRUE, err, "error")

\* Lines 143-163: the attempt raised err.  The failure is counted; before
\* the last attempt the thread waits on the latch (a latch already set ends
\* the wait at once, lines 149-150); after the last attempt the cached
\* document is returned or the error raised.
AttemptFailed(obs, err) ==
  LET failures == healthcheck_failures.fetch + 1
      failed == [obs EXCEPT !.last_error = err]
  IN /\ healthcheck_failures.fetch < MaxFetchFailures
     /\ healthcheck_failures' =
          [healthcheck_failures EXCEPT !.fetch = failures]
     /\ UNCHANGED cacheVars
     /\ IF fetch.attempt < fetch.max_attempts - 1
          THEN IF shutdown_event
                 THEN /\ fetch' = FetchIdle
                      /\ fetch_obs' = Finished(failed, TRUE,
                                               ShutdownDuringWait, "shutdown")
                 ELSE /\ fetch' = [fetch EXCEPT
                                     !.pc = "wait", !.sent = 0,
                                     !.wake = now + fetch.retry_delay]
                      /\ fetch_obs' = failed
          ELSE /\ fetch' = FetchIdle
               /\ fetch_obs' =
                    IF ServeStale(last_successful_metrics, failures)
                      THEN Finished(failed, FALSE, last_successful_metrics,
                                    "stale")
                      ELSE Finished(failed, TRUE, err, "error")

\* FetchAttempt that does not count an attempt rejected by the open breaker.
FetchAttempt_RejectUncounted ==
  /\ fetch.pc = "loop"
  /\ drain.pc # "exited"
  /\ fetch.attempt < fetch.max_attempts
  /\ ~shutdown_event
  /\ LET st == CallGate(circuit_breaker, now)
         obs == [fetch_obs EXCEPT !.attempts = @ + 1]
         failed == [obs EXCEPT !.last_error = CircuitOpenError]
     IN IF st = "REJECT"
          THEN /\ UNCHANGED <<circuit_breaker, cacheVars,
                              healthcheck_failures>>
               /\ IF fetch.attempt < fetch.max_attempts - 1
                    THEN /\ fetch' = [fetch EXCEPT
                                        !.pc = "wait", !.sent = 0,
                                        !.wake = now + fetch.retry_delay]
                         /\ fetch_obs' = failed
                    ELSE /\ fetch' = FetchIdle
                         /\ fetch_obs' =
                              IF ServeStale(last_successful_metrics,
                                            healthcheck_failures.fetch)
                                THEN Finished(failed, FALSE,
                                              last_successful_metrics,
                                              "stale")
                                ELSE Finished(failed, TRUE, CircuitOpenError,
                                              "error")
          ELSE /\ circuit_breaker' = [circuit_breaker EXCEPT !.state = st]
               /\ fetch' = [fetch EXCEPT !.pc = "request", !.sent = now]
               /\ fetch_obs' = [obs EXCEPT !.invoked = @ + 1]
               /\ UNCHANGED <<cacheVars, healthcheck_failures>>
  /\ UNCHANGED <<now, cb_last, cb_hist, configVars, flagVars, drain,
                 health_obs, sideVars>>

\* Lines 129-132 with the breaker's gate (lines 30-35): the latch is clear
\* and an attempt starts.  The open breaker rejects it at once, which is a
\* failed attempt (lines 143-163); otherwise the breaker's state is stored
\* (HALF_OPEN after the recovery timeout) and the upstream request of line
\* 110 is sent, the thread blocking in it.
FetchAttempt ==
  /\ fetch.pc = "loop"
  /\ drain.pc # "exited"
  /\ fetch.attempt < fetch.max_attempts
  /\ ~shutdown_event
  /\ LET st == CallGate(circuit_breaker, now)
         obs == [fetch_obs EXCEPT !.attempts = @ + 1]
     IN IF st = "REJECT"
          THEN /\ UNCHANGED circuit_breaker
               /\ AttemptFailed(obs, CircuitOpenError)
          ELSE /\ circuit_breaker' = [circuit_breaker EXCEPT !.state = st]
               /\ fetch' = [fetch EXCEPT !.pc = "request", !.sent = now]
               /\ fetch_obs' = [obs EXCEPT !.invoked = @ + 1]
               /\ UNCHANGED <<cacheVars, healthcheck_failures>>
  /\ UNCHANGED <<now, cb_last, cb_hist, configVars, flagVars, drain,
                 health_obs, sideVars>>

\* The request of line 110 ends op.dur seconds after it was sent, with op
\* what the upstream did: the breaker's bookkeeping (lines 38-51) in the
\* state it has then, and the fetcher's (lines 135-141 or 143-163).  The
\* latch is not looked at again before the wait of line 149.
FetchResponse(op) ==
  /\ fetch.pc = "request"
  /\ drain.pc # "exited"
  /\ now = fetch.sent + op.dur
  /\ IF op.ok
       THEN /\ circuit_breaker' =
                 CallSuccess(circuit_breaker, circuit_breaker.state)
            /\ FetchSuccess(op.val, now)
            /\ fetch' = FetchIdle
            /\ fetch_obs' = Finished(fetch_obs, FALSE, op.val, "fresh")
       ELSE /\ circuit_breaker' =
                 CallFailure(circuit_breaker, circuit_breaker.state, now)
            /\ AttemptFailed(fetch_obs, op.val)
  /\ UNCHANGED <<now, cb_last, cb_hist, configVars, flagVars, drain,
                 health_obs, sideVars>>

FetchResponseAny == \E op \in Requests : FetchResponse(op)

\* A request to which the upstream answers 200 with the JSON value null:
\* response.json() at line 112 returns None.
FetchResponseNull ==
  \E dur \in RequestTimes :
    FetchResponse([ok |-> TRUE, val |-> NoMetrics, dur |-> dur])

\* A request to which the upstream answers 200 with a JSON value other than
\* the mapping the translator expects: response.json() returns it as it is.
FetchResponseMalformed ==
  \E dur \in RequestTimes, doc \in MalformedDocs :
    FetchResponse([ok |-> TRUE, val |-> doc, dur |-> dur])

\* FetchWaitExpire that takes the budget anew from agent_draining.
FetchWaitExpire_RereadBudget ==
  /\ fetch.pc = "wait"
  /\ drain.pc # "exited"
  /\ ~shutdown_event
  /\ now >= fetch.wake
  /\ fetch' =
       [fetch EXCEPT
          !.pc = "loop", !.attempt = @ + 1, !.wake = 0,
          !.max_attempts = MaxAttemptsFor(agent_draining, MAX_RETRY_ATTEMPTS),
          !.retry_delay = RetryDelayFor(agent_draining, RETRY_DELAY)]
  /\ fetch_obs' =
       [fetch_obs EXCEPT
          !.waits = Append(@, now - (fetch.wake - fetch.retry_delay))]
  /\ UNCHANGED <<now, cbVars, configVars, flagVars, cacheVars,
                 healthcheck_failures, drain, health_obs, sideVars>>

\* Line 149, shutdown_event.wait(retry_delay) timing out: the next attempt.
FetchWaitExpire ==
  /\ fetch.pc = "wait"
  /\ drain.pc # "exited"
  /\ ~shutdown_event
  /\ now >= fetch.wake
  /\ fetch' = [fetch EXCEPT !.pc = "loop", !.attempt = @ + 1, !.wake = 0]
  /\ fetch_obs' =
       [fetch_obs EXCEPT
          !.waits = Append(@, now - (fetch.wake - fetch.retry_delay))]
  /\ UNCHANGED <<now, cbVars, configVars, flagVars, cacheVars,
                 healthcheck_failures, drain, health_obs, sideVars>>

\* FetchWaitAbort that falls back to the cached document instead of raising.
FetchWaitAbort_ServeStale ==
  /\ fetch.pc = "wait"
  /\ drain.pc # "exited"
  /\ shutdown_event
  /\ fetch' = FetchIdle
  /\ fetch_obs' =
       IF ServeStale(last_successful_metrics, healthcheck_failures.fetch)
         THEN Finished(fetch_obs, FALSE, last_successful_metrics, "stale")
         ELSE Finished(fetch_obs, TRUE, ShutdownDuringWait, "shutdown")
  /\ UNCHANGED <<now, cbVars, configVars, flagVars, cacheVars,
                 healthcheck_failures, drain, health_obs, sideVars>>

\* Lines 149-150, shutdown_event.wait(retry_delay) returning True: the latch
\* was set before or during the wait.
FetchWaitAbort ==
  /\ fetch.pc = "wait"
  /\ drain.pc # "exited"
  /\ shutdown_event
  /\ fetch' = FetchIdle
  /\ fetch_obs' = Finished(fetch_obs, TRUE, ShutdownDuringWait, "shutdown")
  /\ UNCHANGED <<now, cbVars, configVars, flagVars, cacheVars,
                 healthcheck_failures, drain, health_obs, sideVars>>

(***************************************************************************)
(* convert_to_prometheus and the /metrics route (lines 165-243).  The      *)
(* route is the only caller of fetch_metrics; its response is computed     *)
(* from the way that call ended.                                           *)
(***************************************************************************)
\* dict.get(key, default)
Get(mapping, key, default) ==
  IF key \in DOMAIN mapping THEN mapping[key] ELSE default

\* The lines of the exposition format: '# HELP name ...', '# TYPE name gauge'
\* and the sample 'name{labels} value'.
HelpLine(name) == [line |-> "HELP", name |-> name]
TypeLine(name) == [line |-> "TYPE", name |-> name, type |-> "gauge"]
SampleLine(name, labels, value) ==
  [line |-> "sample", name |-> name, labels |-> labels, value |-> value]

\* Lines 165-202, for a document that is a mapping.
convert_to_prometheus(metrics) ==
  LET build_info == Get(metrics, "buildInfo", <<>>)
      agent_status == Get(metrics, "agentStatus", "")
  IN << HelpLine("app_version_info"), TypeLine("app_version_info"),
        SampleLine("app_version_info",
                   [version |-> Get(build_info, "version", "unknown"),
                    commit_hash |-> Get(build_info, "commitHash", "unknown"),
                    build_timestamp |-> Get(build_info, "buildTimestamp", 0)],
                   1),
        HelpLine("app_agent_status"), TypeLine("app_agent_status"),
        SampleLine("app_agent_status", <<>>,
                   IF agent_status = "RUNNING" THEN 1 ELSE 0),
        HelpLine("app_active_task_count"), TypeLine("app_active_task_count"),
        SampleLine("app_active_task_count", <<>>,
                   Get(metrics, "activeTaskCount", 0)),
        HelpLine("app_active_request_count"),
        TypeLine("app_active_request_count"),
        SampleLine("app_active_request_count", <<>>,
                   Get(metrics, "activeRequestCount", 0)),
        HelpLine("app_open_sessions_count"),
        TypeLine("app_open_sessions_count"),
        SampleLine("app_open_sessions_count", <<>>,
                   Get(metrics, "openSessionsCount", 0)) >>

\* Lines 231-241: the minimal document of the except branch.
minimal_metrics ==
  << HelpLine("app_active_task_count"), TypeLine("app_active_task_count"),
     SampleLine("app_active_task_count", <<>>, 0),
     HelpLine("app_active_request_count"),
     TypeLine("app_active_request_count"),
     SampleLine("app_active_request_count", <<>>, 0),
     HelpLine("app_agent_status"), TypeLine("app_agent_status"),
     SampleLine("app_agent_status", <<>>, 0) >>

(***************************************************************************)
(* convert_to_prometheus alone: a payload, translated again and again.     *)
(***************************************************************************)
\* A key that a mapping does not have.
Absent == "<absent>"

\* The buildInfo values tried, by name: the key absent, null, a list, an
\* empty mapping, a mapping with the version only, a complete mapping.
BuildInfoChoices == {Absent, "null", "array", "empty", "partial", "full"}
BuildInfoValue(choice) ==
  CASE choice = "null" -> Null
    [] choice = "array" -> [kind |-> "array"]
    [] choice = "empty" -> Obj(<<>>)
    [] choice = "partial" -> Obj([version |-> "2.0.0"])
    [] choice = "full" ->
         Obj([version |-> "1.2.3", commitHash |-> "abc123",
              buildTimestamp |-> 7])

\* The agentStatus strings and the counts tried (None: the key is absent).
StatusChoices == {Absent, "RUNNING", "STOPPED", "running", ""}
TaskCountChoices == {None, 0, 2}
RequestCountChoices == {None, 1}
SessionCountChoices == {None, 3}

\* The mapping that has exactly the keys chosen.
Mapping(bi, st, tc, rc, sc) ==
  LET keys == (IF bi # Absent THEN {"buildInfo"} ELSE {})
                \cup (IF st # Absent THEN {"agentStatus"} ELSE {})
                \cup (IF tc # None THEN {"activeTaskCount"} ELSE {})
                \cup (IF rc # None THEN {"activeRequestCount"} ELSE {})
                \cup (IF sc # None THEN {"openSessionsCount"} ELSE {})
  IN Obj([k \in keys |->
            CASE k = "buildInfo" -> BuildInfoValue(bi)
              [] k = "agentStatus" -> st
              [] k = "activeTaskCount" -> tc
              [] k = "activeRequestCount" -> rc
              [] k = "openSessionsCount" -> sc])

\* The payloads tried.
Payloads ==
  NonMappings \cup
    { Mapping(bi, st, tc, rc, sc) :
        bi \in BuildInfoChoices, st \in StatusChoices, tc \in TaskCountChoices,
        rc \in RequestCountChoices, sc \in SessionCountChoices }

\* The AttributeError of calling .get on a value that is not a mapping.
AttributeError == "AttributeError"

\* convert_to_prometheus(value), lines 165-202, for any JSON value:
\* metrics.get raises at line 167 unless metrics is a mapping, and
\* build_info.get raises at line 173 unless buildInfo (when present) is one.
Translate(value) ==
  IF value.kind # "object"
    THEN [raised |-> TRUE, val |-> AttributeError]
    ELSE LET build_info == Get(value.fields, "buildInfo", Obj(<<>>))
         IN IF build_info.kind # "object"
              THEN [raised |-> TRUE, val |-> AttributeError]
              ELSE [raised |-> FALSE,
                    val |-> convert_to_prometheus(
                              [k \in DOMAIN value.fields |->
                                 IF k = "buildInfo" THEN build_info.fields
                                 ELSE value.fields[k]])]

\* The JSON values response.json() gives (line 112) under the names of the
\* documents: a complete mapping (docA), one with fields missing (docB), the
\* malformed ones, and None.
Payload(doc) ==
  CASE doc = "docA" ->
         Obj([buildInfo |-> Obj([version |-> "1.2.3", commitHash |-> "abc123",
                                 buildTimestamp |-> 7]),
              agentStatus |-> "RUNNING", activeTaskCount |-> 2,
              activeRequestCount |-> 1, openSessionsCount |-> 3])
    [] doc = "docB" ->
         Obj([agentStatus |-> "STOPPING", activeTaskCount |-> 1])
    [] doc = "docNullBuildInfo" ->
         Obj([buildInfo |-> Null, agentStatus |-> "RUNNING",
              activeTaskCount |-> 2])
    [] doc = "docList" -> [kind |-> "array"]
    [] doc = NoMetrics -> Null

\* Line 225: convert_to_prometheus raises on what fetch_metrics returned
\* (None, a value that is not a mapping, a buildInfo that is not one).
ConvertRaises(doc) == Translate(Payload(doc)).raised

\* MetricsResponse that answers 500 when the translation raises.
MetricsResponse_ConvertUncaught(raised, val) ==
  IF raised
    THEN [status |-> 200, body |-> minimal_metrics]
    ELSE IF ConvertRaises(val)
      THEN [status |-> 500, body |-> <<>>]
      ELSE [status |-> 200, body |-> Translate(Payload(val)).val]

\* MetricsResponse whose fallback document lacks the agent status block.
MetricsResponse_FallbackWithoutStatus(raised, val) ==
  IF raised \/ ConvertRaises(val)
    THEN [status |-> 200, body |-> SubSeq(minimal_metrics, 1, 6)]
    ELSE [status |-> 200, body |-> Translate(Payload(val)).val]

\* Lines 221-243: the response of GET /metrics when its fetch_metrics call
\* raised (raised) or returned val: the except branch (line 227) catches
\* what fetch_metrics and convert_to_prometheus raise.
MetricsResponse(raised, val) ==
  IF raised \/ ConvertRaises(val)
    THEN [status |-> 200, body |-> minimal_metrics]
    ELSE [status |-> 200, body |-> Translate(Payload(val)).val]

\* convert_to_prometheus(payload) is called once more.
ConvertCall ==
  /\ Len(translated) < MaxTranslations
  /\ translated' = Append(translated, Translate(payload))
  /\ UNCHANGED <<now, cbVars, configVars, flagVars, cacheVars,
                 healthcheck_failures, fetchVars, drain, health_obs,
                 payload, threadVars, backlog, monitor>>

(***************************************************************************)
(* signal_handler and wait_for_agent_drain (lines 69-99), on the main      *)
(* thread.                                                                 *)
(***************************************************************************)
\* The handler's locals on entering wait_for_agent_drain at time t: the
\* loop's start_time and the wake time of its sleep; with them, observations:
\* the time the first signal arrived (first), the number of handler
\* invocations so far (signals) and the polls this loop has made (polls).
Draining(t, first, signals) ==
  [pc |-> "poll", start_time |-> t, wake |-> 0, sent |-> 0,
   first |-> first, signals |-> signals, polls |-> 0]

\* SignalHandler that enters the poll loop without marking the agent as
\* draining.
SignalHandler_NoFlag ==
  /\ drain.pc = "none"
  /\ drain' = Draining(now, now, 1)
  /\ UNCHANGED <<now, cbVars, configVars, flagVars, cacheVars,
                 healthcheck_failures, fetchVars, health_obs, sideVars>>

\* Lines 69-72 and 83: a termination signal arrives; the handler marks the
\* agent as draining and enters wait_for_agent_drain.
SignalHandler ==
  /\ drain.pc = "none"
  /\ agent_draining' = TRUE
  /\ drain' = Draining(now, now, 1)
  /\ UNCHANGED <<now, cbVars, configVars, shutdown_event, cacheVars,
                 healthcheck_failures, fetchVars,
                 health_obs, sideVars>>

\* SignalAgain that flips agent_draining instead of setting it.
SignalAgain_Toggle ==
  /\ drain.pc \in {"poll", "polling", "sleep", "latch", "exit"}
  /\ drain.signals < MaxSignals
  /\ agent_draining' = ~agent_draining
  /\ drain' = Draining(now, drain.first, drain.signals + 1)
  /\ UNCHANGED <<now, cbVars, configVars, shutdown_event, cacheVars,
                 healthcheck_failures, fetchVars,
                 health_obs, sideVars>>

\* Lines 69-72 and 83 again: a further signal arrives while the handler of
\* an earlier one is still running on the main thread.  Python runs the
\* handler on top of the interrupted one, which is never resumed, the new
\* invocation ending in sys.exit: a new poll loop with a new start_time.
SignalAgain ==
  /\ drain.pc \in {"poll", "polling", "sleep", "latch", "exit"}
  /\ drain.signals < MaxSignals
  /\ agent_draining' = TRUE
  /\ drain' = Draining(now, drain.first, drain.signals + 1)
  /\ UNCHANGED <<now, cbVars, configVars, shutdown_event, cacheVars,
                 healthcheck_failures, fetchVars,
                 health_obs, sideVars>>

\* Lines 85-88: the grace period is not over and the upstream is polled;
\* the handler blocks in the request.
DrainPoll ==
  /\ drain.pc = "poll"
  /\ now - drain.start_time < GRACE_PERIOD_SECONDS
  /\ drain' = [drain EXCEPT !.pc = "polling", !.sent = now, !.polls = @ + 1]
  /\ UNCHANGED <<now, cbVars, configVars, flagVars, cacheVars,
                 healthcheck_failures, fetchVars,
                 health_obs, sideVars>>

\* What the poll of line 88 does: a status or an exception, after PollTimes
\* seconds; at the timeout, the exception.
PollAnswers ==
  {a \in [status : PollResults, dur : PollTimes] :
     a.dur = PollTimeout => a.status = "RequestException"}

\* DrainPollResponse that leaves the loop on an exception only, not on a
\* status other than 200.
DrainPollResponse_IgnoreStatus(a) ==
  /\ drain.pc = "polling"
  /\ now = drain.sent + a.dur
  /\ drain' = IF a.status \in {"200", "503"}
                THEN [drain EXCEPT !.pc = "sleep", !.sent = 0,
                                   !.wake = now + PollPause]
                ELSE [drain EXCEPT !.pc = "latch", !.sent = 0]
  /\ UNCHANGED <<now, cbVars, configVars, flagVars, cacheVars,
                 healthcheck_failures, fetchVars,
                 health_obs, sideVars>>

\* DrainPollResponse that counts a failed poll in the 'fetch' failure
\* counter.
DrainPollResponse_CountFailure(a) ==
  /\ drain.pc = "polling"
  /\ now = drain.sent + a.dur
  /\ drain' = IF a.status = "200"
                THEN [drain EXCEPT !.pc = "sleep", !.sent = 0,
                                   !.wake = now + PollPause]
                ELSE [drain EXCEPT !.pc = "latch", !.sent = 0]
  /\ healthcheck_failures' =
       IF a.status = "200" THEN healthcheck_failures
       ELSE [healthcheck_failures EXCEPT !.fetch = @ + 1]
  /\ UNCHANGED <<now, cbVars, configVars, flagVars, cacheVars, fetchVars,
                 health_obs, sideVars>>

\* Lines 88-97: the poll ends a.dur seconds after it was sent.  On 200 the
\* handler sleeps PollPause seconds from then; on any other status or an
\* exception it leaves the loop.
DrainPollResponse(a) ==
  /\ drain.pc = "polling"
  /\ now = drain.sent + a.dur
  /\ drain' = IF a.status = "200"
                THEN [drain EXCEPT !.pc = "sleep", !.sent = 0,
                                   !.wake = now + PollPause]
                ELSE [drain EXCEPT !.pc = "latch", !.sent = 0]
  /\ UNCHANGED <<now, cbVars, configVars, flagVars, cacheVars,
                 healthcheck_failures, fetchVars,
                 health_obs, sideVars>>

DrainPollResponseAny == \E a \in PollAnswers : DrainPollResponse(a)

\* Line 91: time.sleep(1) is over.
DrainWake ==
  /\ drain.pc = "sleep"
  /\ now >= drain.wake
  /\ drain' = [drain EXCEPT !.pc = "poll", !.wake = 0]
  /\ UNCHANGED <<now, cbVars, configVars, flagVars, cacheVars,
                 healthcheck_failures, fetchVars,
                 health_obs, sideVars>>

\* Line 85 false: the grace period is over.
DrainExpire ==
  /\ drain.pc = "poll"
  /\ ~(now - drain.start_time < GRACE_PERIOD_SECONDS)
  /\ drain' = [drain EXCEPT !.pc = "latch"]
  /\ UNCHANGED <<now, cbVars, configVars, flagVars, cacheVars,
                 healthcheck_failures, fetchVars,
                 health_obs, sideVars>>

\* Lines 77-78: back in signal_handler, the latch is set.
HandlerLatch ==
  /\ drain.pc = "latch"
  /\ shutdown_event' = TRUE
  /\ drain' = [drain EXCEPT !.pc = "exit"]
  /\ UNCHANGED <<now, cbVars, configVars, agent_draining, cacheVars,
                 healthcheck_failures, fetchVars,
                 health_obs, sideVars>>

\* Line 79: sys.exit(0) ends the process, request threads included.
HandlerExit ==
  /\ drain.pc = "exit"
  /\ drain' = [pc |-> "exited", status |-> 0]
  /\ UNCHANGED <<now, cbVars, configVars, flagVars, cacheVars,
                 healthcheck_failures, fetchVars,
                 health_obs, sideVars>>

(***************************************************************************)
(* The /health route (lines 204-219), on a request thread.                 *)
(***************************************************************************)
\* HealthResponse that tests the failure counter before the latch.
HealthResponse_CounterFirst(latch, failures) ==
  IF failures > HealthFailureLimit
    THEN [seen |-> TRUE, status |-> 503, body |-> "Too many fetch failures"]
  ELSE IF latch
    THEN [seen |-> TRUE, status |-> 503, body |-> "Shutting down"]
  ELSE [seen |-> TRUE, status |-> 200, body |-> "OK"]

\* Lines 209-216: the response for a latch and a 'fetch' failure count.
HealthResponse(latch, failures) ==
  IF latch
    THEN [seen |-> TRUE, status |-> 503, body |-> "Shutting down"]
  ELSE IF failures > HealthFailureLimit
    THEN [seen |-> TRUE, status |-> 503, body |-> "Too many fetch failures"]
  ELSE [seen |-> TRUE, status |-> 200, body |-> "OK"]

\* Health that clears the failure counter it reports on.
Health_ResetCounter ==
  /\ drain.pc # "exited"
  /\ health_obs' = HealthResponse(shutdown_event, healthcheck_failures.fetch)
  /\ healthcheck_failures' = [healthcheck_failures EXCEPT !.fetch = 0]
  /\ UNCHANGED <<now, cbVars, configVars, flagVars, cacheVars, fetchVars,
                 drain, sideVars>>

\* GET /health is answered.
Health ==
  /\ drain.pc # "exited"
  /\ health_obs' = HealthResponse(shutdown_event, healthcheck_failures.fetch)
  /\ UNCHANGED <<now, cbVars, configVars, flagVars, cacheVars,
                 healthcheck_failures, fetchVars, drain,
                 sideVars>>

(***************************************************************************)
(* The clock of the exporter.  A thread that can run does so before the    *)
(* clock moves; the clock moves second by second while a thread sleeps     *)
(* and by a gap between requests when nothing runs.                        *)
(***************************************************************************)
FetchRunnable ==
  \/ fetch.pc = "loop"
  \/ fetch.pc = "wait" /\ (shutdown_event \/ now >= fetch.wake)

DrainRunnable ==
  \/ drain.pc \in {"poll", "latch", "exit"}
  \/ drain.pc = "sleep" /\ now >= drain.wake

\* A second passes, up to the time limit, while every thread sleeps or
\* blocks in a request; a request is answered within the longest of its
\* times.
SecondPasses(limit) ==
  /\ drain.pc # "exited"
  /\ ~FetchRunnable /\ ~DrainRunnable
  /\ fetch.pc \in {"wait", "request"} \/ drain.pc \in {"sleep", "polling"}
  /\ fetch.pc = "request" => \E d \in RequestTimes : now < fetch.sent + d
  /\ drain.pc = "polling" => \E d \in PollTimes : now < drain.sent + d
  /\ now < limit
  /\ now' = now + 1
  /\ UNCHANGED <<cbVars, exporterVars>>

Tick == SecondPasses(MaxClock)

TickSignals == SecondPasses(MaxClockSignals)

Idle(gap) ==
  /\ fetch.pc = "idle"
  /\ drain.pc = "none"
  /\ now + gap <= MaxClock
  /\ now' = now + gap
  /\ UNCHANGED <<cbVars, exporterVars>>

IdleAny == \E gap \in IdleGaps : Idle(gap)

\* The exporter after import: the module state, the breaker built at line 53,
\* and a configuration.
Init ==
  /\ now = 0
  /\ circuit_breaker =
       CircuitBreaker(DefaultFailureThreshold, DefaultRecoveryTimeout)
  /\ cb_last = NoCall
  /\ cb_hist = [failed |-> 0, succeeded |-> FALSE]
  /\ MAX_RETRY_ATTEMPTS \in {0, 1, 2, MaxAttempts}
  /\ RETRY_DELAY \in {1, MaxDelay}
  /\ GRACE_PERIOD_SECONDS \in {0, MaxGrace}
  /\ ModuleState
  /\ Alone

Next ==
  \/ FetchEnter
  \/ FetchFallOff
  \/ FetchAbort
  \/ FetchAttempt
  \/ FetchResponseAny
  \/ FetchWaitExpire
  \/ FetchWaitAbort
  \/ SignalHandler
  \/ DrainPoll
  \/ DrainPollResponseAny
  \/ DrainWake
  \/ DrainExpire
  \/ HandlerLatch
  \/ HandlerExit
  \/ Tick
  \/ IdleAny

Spec == Init /\ [][Next]_vars

(***************************************************************************)
(* The exporter under load: /metrics requests back to back, /health        *)
(* requests at any moment and a signal, with the largest retry budget and  *)
(* delay of the model, or with no budget at all.                           *)
(***************************************************************************)
InitServe ==
  /\ now = 0
  /\ circuit_breaker =
       CircuitBreaker(DefaultFailureThreshold, DefaultRecoveryTimeout)
  /\ cb_last = NoCall
  /\ cb_hist = [failed |-> 0, succeeded |-> FALSE]
  /\ MAX_RETRY_ATTEMPTS \in {0, MaxAttempts}
  /\ RETRY_DELAY = MaxDelay
  /\ GRACE_PERIOD_SECONDS \in 0..MaxGrace
  /\ ModuleState
  /\ Alone

NextServe ==
  \/ FetchEnter
  \/ FetchFallOff
  \/ FetchAbort
  \/ FetchAttempt
  \/ FetchResponseAny
  \/ FetchWaitExpire
  \/ FetchWaitAbort
  \/ Health
  \/ SignalHandler
  \/ DrainPoll
  \/ DrainPollResponseAny
  \/ DrainWake
  \/ DrainExpire
  \/ HandlerLatch
  \/ HandlerExit
  \/ Tick

SpecServe == InitServe /\ [][NextServe]_vars

(***************************************************************************)
(* The exporter under repeated signals: /metrics and /health requests at   *)
(* any moment, with MAX_RETRY_ATTEMPTS = 0, so that fetch_metrics makes    *)
(* attempts (three, a second apart) only once the agent is draining.       *)
(***************************************************************************)
InitSignals ==
  /\ now = 0
  /\ circuit_breaker =
       CircuitBreaker(DefaultFailureThreshold, DefaultRecoveryTimeout)
  /\ cb_last = NoCall
  /\ cb_hist = [failed |-> 0, succeeded |-> FALSE]
  /\ MAX_RETRY_ATTEMPTS = 0
  /\ RETRY_DELAY = DrainingRetryDelay
  /\ GRACE_PERIOD_SECONDS \in {0, MaxGrace}
  /\ ModuleState
  /\ Alone

NextSignals ==
  \/ FetchEnter
  \/ FetchFallOff
  \/ FetchAbort
  \/ FetchAttempt
  \/ FetchResponseAny
  \/ FetchWaitExpire
  \/ FetchWaitAbort
  \/ Health
  \/ SignalHandler
  \/ SignalAgain
  \/ DrainPoll
  \/ DrainPollResponseAny
  \/ DrainWake
  \/ DrainExpire
  \/ HandlerLatch
  \/ HandlerExit
  \/ TickSignals

SpecSignals == InitSignals /\ [][NextSignals]_vars

(***************************************************************************)
(* The server loop.  app.run (line 264) runs serve_forever on the main     *)
(* thread: it accepts each connection and hands it to a request thread.    *)
(* Python runs signal_handler on the main thread too, inside that loop, so *)
(* that nothing is accepted from the signal until sys.exit (line 79);      *)
(* request threads already started keep running.                           *)
(***************************************************************************)
Paths == {"/health", "/metrics"}

\* A client connects: the connection waits in the listen queue.
Arrive(path) ==
  /\ drain.pc # "exited"
  /\ Len(backlog) + Cardinality({i \in Threads : threads[i].pc # "none"})
       < MaxConnections
  /\ backlog' =
       Append(backlog,
              [path |-> path, at |-> now,
               draining |-> drain.pc \in {"poll", "polling", "sleep"}])
  /\ UNCHANGED <<now, cbVars, configVars, flagVars, cacheVars,
                 healthcheck_failures, fetchVars, drain, health_obs,
                 translatorVars, threadVars, monitor>>

ArriveAny == \E path \in Paths : Arrive(path)

\* The main thread can accept: it is in serve_forever, not in the handler.
MainThreadServing == drain.pc = "none"

\* serve_forever accepts the first connection and starts a request thread
\* for it (threaded=True, line 264), one thread per request; the thread has
\* not entered its view yet.
Accept ==
  /\ MainThreadServing
  /\ backlog # <<>>
  /\ \E i \in Threads : threads[i].pc = "none"
  /\ LET i == CHOOSE j \in Threads : threads[j].pc = "none"
     IN threads' =
          [threads EXCEPT
             ![i].pc = IF Head(backlog).path = "/health" THEN "health"
                                                         ELSE "idle"]
  /\ backlog' = Tail(backlog)
  /\ UNCHANGED <<now, cbVars, configVars, flagVars, cacheVars,
                 healthcheck_failures, fetchVars, drain, health_obs,
                 translatorVars, race_obs, monitor>>

\* Lines 204-219 on the request thread of a GET /health: the response is
\* made from the latch and the counter as they are when the thread runs.
ThreadHealth(i) ==
  /\ threads[i].pc = "health"
  /\ drain.pc # "exited"
  /\ health_obs' = HealthResponse(shutdown_event, healthcheck_failures.fetch)
  /\ threads' = [threads EXCEPT ![i].pc = "done", ![i].result = "health"]
  /\ UNCHANGED <<now, cbVars, configVars, flagVars, cacheVars,
                 healthcheck_failures, fetchVars, drain, translatorVars,
                 race_obs, backlog, monitor>>

(***************************************************************************)
(* fetch_metrics run by the request threads of the threaded server (line   *)
(* 264), one thread per request.  No lock guards the module state, so a    *)
(* thread may be preempted between any two accesses to it, and at every    *)
(* call it makes: each step below is one access, or one call of            *)
(* time.time() whose value the thread keeps (clock) and uses in a later    *)
(* step.  The threads end with the process (sys.exit, line 79).            *)
(***************************************************************************)
\* What the upstream request of a thread does.
ThreadRequests ==
  [ok : {TRUE}, val : OpResults] \cup [ok : {FALSE}, val : {"ConnectionError"}]

\* Lines 118-123: the budget of the call, and the first two tests of the
\* cache check: a document and a timestamp are present.  The thread keeps
\* the pair it read.
ThreadEnter(i) ==
  /\ threads[i].pc = "idle"
  /\ drain.pc # "exited"
  /\ LET present == /\ last_successful_metrics # NoMetrics
                    /\ last_metrics_time # None
     IN threads' =
          [threads EXCEPT
             ![i].pc = IF present THEN "cache_clock" ELSE "gate",
             ![i].max_attempts =
                MaxAttemptsFor(agent_draining, MAX_RETRY_ATTEMPTS),
             ![i].retry_delay = RetryDelayFor(agent_draining, RETRY_DELAY),
             ![i].seen = <<last_successful_metrics, last_metrics_time>>]
  /\ UNCHANGED <<now, cbVars, configVars, flagVars, cacheVars,
                 healthcheck_failures, fetchVars, drain, health_obs,
                 translatorVars, race_obs, backlog, monitor>>

\* A call of time.time(): at line 124 (the cache check), line 31 (the
\* breaker's gate), line 46 (a failure) or line 136 (a success).  The
\* thread keeps the value.
ThreadClock(i) ==
  /\ threads[i].pc \in {"cache_clock", "gate_clock", "cb_clock",
                        "store_clock"}
  /\ drain.pc # "exited"
  /\ threads' =
       [threads EXCEPT
          ![i].clock = now,
          ![i].pc = CASE threads[i].pc = "cache_clock" -> "cache_check"
                      [] threads[i].pc = "gate_clock" -> "gate_open"
                      [] threads[i].pc = "cb_clock" -> "cb_trip"
                      [] OTHER -> "store_time"]
  /\ UNCHANGED <<now, cbVars, configVars, flagVars, cacheVars,
                 healthcheck_failures, fetchVars, drain, health_obs,
                 translatorVars, race_obs, backlog, monitor>>

\* Line 124: the age test, on the timestamp as it is by now and the clock
\* value read before.
ThreadCacheCheck(i) ==
  /\ threads[i].pc = "cache_check"
  /\ drain.pc # "exited"
  /\ LET hit == CacheValid(threads[i].seen[1], last_metrics_time,
                           threads[i].clock)
     IN threads' =
          [threads EXCEPT
             ![i].pc = IF hit THEN "cache_return" ELSE "gate",
             ![i].clock = None,
             ![i].seen = <<@[1], last_metrics_time>>]
  /\ UNCHANGED <<now, cbVars, configVars, flagVars, cacheVars,
                 healthcheck_failures, fetchVars, drain, health_obs,
                 translatorVars, race_obs, backlog, monitor>>

\* Lines 125-126: after the log call, the document is read again and
\* returned.
ThreadCacheReturn(i) ==
  /\ threads[i].pc = "cache_return"
  /\ drain.pc # "exited"
  /\ threads' =
       [threads EXCEPT
          ![i].pc = "done", ![i].result = "cache",
          ![i].seen = <<last_successful_metrics, @[2]>>]
  /\ UNCHANGED <<now, cbVars, configVars, flagVars, cacheVars,
                 healthcheck_failures, fetchVars, drain, health_obs,
                 translatorVars, race_obs, backlog, monitor>>

\* Lines 128-130: the loop test and the read of the latch.  A thread that
\* found the latch clear goes on to CircuitBreaker.call, where it may be
\* preempted before it reads the breaker's state.
ThreadLatch(i) ==
  /\ threads[i].pc = "gate"
  /\ drain.pc # "exited"
  /\ threads' =
       IF threads[i].attempt >= threads[i].max_attempts
         THEN [threads EXCEPT ![i].pc = "done", ![i].result = "fell_off"]
         ELSE IF shutdown_event
           THEN [threads EXCEPT ![i].pc = "done", ![i].result = "shutdown"]
           ELSE [threads EXCEPT ![i].pc = "cb_state"]
  /\ UNCHANGED <<now, cbVars, configVars, flagVars, cacheVars,
                 healthcheck_failures, fetchVars, drain, health_obs,
                 translatorVars, race_obs, backlog, monitor>>

\* Line 30: the read of the breaker's state, as it is by now.  An OPEN
\* state leads to the timeout test; any other state lets the call through,
\* the breaker untouched.
ThreadGate(i) ==
  /\ threads[i].pc = "cb_state"
  /\ drain.pc # "exited"
  /\ IF circuit_breaker.state = "OPEN"
       THEN threads' = [threads EXCEPT ![i].pc = "gate_clock"]
       ELSE threads' =
              [threads EXCEPT
                 ![i].pc = IF CallGate(circuit_breaker, now) = "REJECT"
                             THEN "hc_load" ELSE "request",
                 ![i].err = IF CallGate(circuit_breaker, now) = "REJECT"
                              THEN CircuitOpenError ELSE @]
  /\ UNCHANGED <<now, cbVars, configVars, flagVars, cacheVars,
                 healthcheck_failures, fetchVars, drain, health_obs,
                 translatorVars, race_obs, backlog, monitor>>

\* Lines 31-35, by a thread that read OPEN at line 30: the timeout test on
\* the clock value read before and last_failure_time as it is by now, then
\* the store of HALF_OPEN, whatever the state is by now, or the rejection.
ThreadGateOpen(i) ==
  /\ threads[i].pc = "gate_open"
  /\ drain.pc # "exited"
  /\ LET st == CallGate([circuit_breaker EXCEPT !.state = "OPEN"],
                        threads[i].clock)
     IN IF st = "REJECT"
          THEN /\ threads' =
                    [threads EXCEPT ![i].pc = "hc_load",
                                    ![i].clock = None,
                                    ![i].err = CircuitOpenError]
               /\ UNCHANGED circuit_breaker
          ELSE /\ threads' = [threads EXCEPT ![i].pc = "request",
                                             ![i].clock = None]
               /\ circuit_breaker' = [circuit_breaker EXCEPT !.state = st]
  /\ UNCHANGED <<now, cb_last, cb_hist, configVars, flagVars, cacheVars,
                 healthcheck_failures, fetchVars, drain, health_obs,
                 translatorVars, race_obs, backlog, monitor>>

\* Lines 38-44: the upstream request ends.  On success the breaker is closed
\* and its count reset if its state is HALF_OPEN by now (lines 39-41).  On
\* failure the thread notes in st the state the breaker has when the
\* exception is caught.
ThreadResponse(i, op) ==
  /\ threads[i].pc = "request"
  /\ drain.pc # "exited"
  /\ IF op.ok
       THEN /\ threads' = [threads EXCEPT ![i].pc = "store_doc",
                                          ![i].doc = op.val]
            /\ circuit_breaker' =
                 CallSuccess(circuit_breaker, circuit_breaker.state)
            /\ race_obs' = [race_obs EXCEPT !.successes = @ + 1]
       ELSE /\ threads' = [threads EXCEPT ![i].pc = "cb_load",
                                          ![i].err = op.val,
                                          ![i].st = circuit_breaker.state]
            /\ UNCHANGED <<circuit_breaker, race_obs>>
  /\ UNCHANGED <<now, cb_last, cb_hist, configVars, flagVars, cacheVars,
                 healthcheck_failures, fetchVars, drain, health_obs,
                 translatorVars, backlog, monitor>>

ThreadResponseAny(i) == \E op \in ThreadRequests : ThreadResponse(i, op)

\* Line 135: the document is stored.
ThreadStoreDoc(i) ==
  /\ threads[i].pc = "store_doc"
  /\ drain.pc # "exited"
  /\ last_successful_metrics' = threads[i].doc
  /\ threads' = [threads EXCEPT ![i].pc = "store_clock"]
  /\ UNCHANGED <<now, cbVars, configVars, flagVars, last_metrics_time,
                 healthcheck_failures, fetchVars, drain, health_obs,
                 translatorVars, race_obs, backlog, monitor>>

\* Line 136: the clock value read before is stored as the timestamp.
ThreadStoreTime(i) ==
  /\ threads[i].pc = "store_time"
  /\ drain.pc # "exited"
  /\ last_metrics_time' = threads[i].clock
  /\ threads' = [threads EXCEPT ![i].pc = "reset",
                                ![i].stamp = threads[i].clock,
                                ![i].clock = None]
  /\ UNCHANGED <<now, cbVars, configVars, flagVars, last_successful_metrics,
                 healthcheck_failures, fetchVars, drain, health_obs,
                 translatorVars, race_obs, backlog, monitor>>

\* Lines 139-141: the failure counter is reset and the document returned.
ThreadReset(i) ==
  /\ threads[i].pc = "reset"
  /\ drain.pc # "exited"
  /\ healthcheck_failures' = [healthcheck_failures EXCEPT !.fetch = 0]
  /\ threads' = [threads EXCEPT ![i].pc = "done", ![i].result = "fresh"]
  /\ UNCHANGED <<now, cbVars, configVars, flagVars, cacheVars, fetchVars,
                 drain, health_obs, translatorVars, race_obs, backlog, monitor>>

\* Line 45, self.failure_count += 1: the count is read, and the sum is
\* stored in a later step.
ThreadCountCall(i) ==
  /\ threads[i].pc \in {"cb_load", "cb_store"}
  /\ drain.pc # "exited"
  /\ IF threads[i].pc = "cb_load"
       THEN /\ threads' =
                 [threads EXCEPT ![i].pc = "cb_store",
                                 ![i].tmp = circuit_breaker.failure_count]
            /\ UNCHANGED <<circuit_breaker, race_obs>>
       ELSE /\ circuit_breaker' =
                 [circuit_breaker EXCEPT
                    !.failure_count = threads[i].tmp + 1]
            /\ threads' = [threads EXCEPT ![i].pc = "cb_clock",
                                          ![i].tmp = None]
            /\ race_obs' = [race_obs EXCEPT !.failed_calls = @ + 1]
  /\ UNCHANGED <<now, cb_last, cb_hist, configVars, flagVars, cacheVars,
                 healthcheck_failures, fetchVars, drain, health_obs,
                 translatorVars, backlog, monitor>>

\* Lines 46-51: the clock value read before is stored as the time of the
\* failure, the threshold is tested on the count as it is by now, and the
\* exception is re-raised to fetch_metrics.
ThreadTrip(i) ==
  /\ threads[i].pc = "cb_trip"
  /\ drain.pc # "exited"
  /\ circuit_breaker' =
       [circuit_breaker EXCEPT
          !.last_failure_time = threads[i].clock,
          !.state = IF circuit_breaker.failure_count
                         >= circuit_breaker.failure_threshold
                      THEN "OPEN" ELSE @]
  /\ threads' = [threads EXCEPT ![i].pc = "hc_load", ![i].st = "none",
                                ![i].clock = None]
  /\ UNCHANGED <<now, cb_last, cb_hist, configVars, flagVars, cacheVars,
                 healthcheck_failures, fetchVars, drain, health_obs,
                 translatorVars, race_obs, backlog, monitor>>

\* Lines 146-163, after the failure was counted and logged: the wait for
\* the next attempt from time t, which returns at once and ends the call
\* when the latch is set (lines 149-150), or the end of the call with the
\* stale document or the error, on the document and the counter as they are
\* then.
AfterFailure(thread, t, doc, failures, latch) ==
  IF thread.attempt < thread.max_attempts - 1
    THEN IF latch
           THEN [thread EXCEPT !.pc = "done", !.result = "shutdown"]
           ELSE [thread EXCEPT !.pc = "wait",
                               !.wake = t + thread.retry_delay]
    ELSE [thread EXCEPT !.pc = "done",
                        !.result = IF ServeStale(doc, failures)
                                     THEN "stale" ELSE "error"]

\* Line 144, healthcheck_failures['fetch'] += 1: the counter is read, and
\* the sum is stored in a later step.
ThreadCountAttempt(i) ==
  /\ threads[i].pc \in {"hc_load", "hc_store"}
  /\ drain.pc # "exited"
  /\ IF threads[i].pc = "hc_load"
       THEN /\ threads' =
                 [threads EXCEPT ![i].pc = "hc_store",
                                 ![i].tmp = healthcheck_failures.fetch]
            /\ UNCHANGED <<healthcheck_failures, race_obs>>
       ELSE /\ healthcheck_failures' =
                 [healthcheck_failures EXCEPT !.fetch = threads[i].tmp + 1]
            /\ threads' = [threads EXCEPT ![i].pc = "failed",
                                          ![i].tmp = None]
            /\ race_obs' = [race_obs EXCEPT !.failed_attempts = @ + 1]
  /\ UNCHANGED <<now, cbVars, configVars, flagVars, cacheVars, fetchVars,
                 drain, health_obs, translatorVars, backlog, monitor>>

\* Lines 146-163: after the log call that follows the count, the thread
\* starts its wait, or reads the cache and the counter for the stale
\* fallback.
ThreadAfterFailure(i) ==
  /\ threads[i].pc = "failed"
  /\ drain.pc # "exited"
  /\ threads' =
       [threads EXCEPT
          ![i] = AfterFailure(@, now, last_successful_metrics,
                              healthcheck_failures.fetch, shutdown_event)]
  /\ UNCHANGED <<now, cbVars, configVars, flagVars, cacheVars,
                 healthcheck_failures, fetchVars, drain, health_obs,
                 translatorVars, race_obs, backlog, monitor>>

\* Lines 149-150: the wait between two attempts returns, True as soon as
\* the latch is set, and the call raises; False when the delay is over, and
\* the loop goes on.
ThreadWake(i) ==
  /\ threads[i].pc = "wait"
  /\ drain.pc # "exited"
  /\ shutdown_event \/ now >= threads[i].wake
  /\ threads' =
       IF shutdown_event
         THEN [threads EXCEPT ![i].pc = "done", ![i].result = "shutdown"]
         ELSE [threads EXCEPT ![i].pc = "gate", ![i].attempt = @ + 1]
  /\ UNCHANGED <<now, cbVars, configVars, flagVars, cacheVars,
                 healthcheck_failures, fetchVars, drain, health_obs,
                 translatorVars, race_obs, backlog, monitor>>

\* A second passes, whatever the threads are doing.
TickRace ==
  /\ now < MaxClockRace
  /\ now' = now + 1
  /\ UNCHANGED <<cbVars, exporterVars>>

InitRace ==
  /\ now = 0
  /\ circuit_breaker =
       CircuitBreaker(DefaultFailureThreshold, DefaultRecoveryTimeout)
  /\ cb_last = NoCall
  /\ cb_hist = [failed |-> 0, succeeded |-> FALSE]
  /\ MAX_RETRY_ATTEMPTS = DrainingMaxAttempts
  /\ RETRY_DELAY = DrainingRetryDelay
  /\ GRACE_PERIOD_SECONDS = DefaultGracePeriod
  /\ ModuleState
  /\ Alone

NextRace ==
  \/ \E i \in Threads :
       \/ ThreadEnter(i)
       \/ ThreadClock(i)
       \/ ThreadCacheCheck(i)
       \/ ThreadCacheReturn(i)
       \/ ThreadLatch(i)
       \/ ThreadGate(i)
       \/ ThreadGateOpen(i)
       \/ ThreadResponseAny(i)
       \/ ThreadStoreDoc(i)
       \/ ThreadStoreTime(i)
       \/ ThreadReset(i)
       \/ ThreadCountCall(i)
       \/ ThreadTrip(i)
       \/ ThreadCountAttempt(i)
       \/ ThreadAfterFailure(i)
       \/ ThreadWake(i)
  \/ TickRace

SpecRace == InitRace /\ [][NextRace]_vars

(***************************************************************************)
(* The exporter with an upstream that may also answer null, a list or a    *)
(* mapping whose buildInfo is null, with the largest retry budget of the   *)
(* model or none.                                                          *)
(***************************************************************************)
InitCache ==
  /\ now = 0
  /\ circuit_breaker =
       CircuitBreaker(DefaultFailureThreshold, DefaultRecoveryTimeout)
  /\ cb_last = NoCall
  /\ cb_hist = [failed |-> 0, succeeded |-> FALSE]
  /\ MAX_RETRY_ATTEMPTS \in {0, MaxAttempts}
  /\ RETRY_DELAY = MaxDelay
  /\ GRACE_PERIOD_SECONDS = PollPause
  /\ ModuleState
  /\ Alone

NextCache == Next \/ FetchResponseNull \/ FetchResponseMalformed

SpecCache == InitCache /\ [][NextCache]_vars

(***************************************************************************)
(* The exporter behind its server loop: connections arrive at any moment,  *)
(* the main thread accepts them while it is not in the signal handler, and *)
(* each request runs on its own thread, which may run at any later time.   *)
(***************************************************************************)
\* A second passes, whatever the request threads are doing, while the main
\* thread serves, sleeps or blocks in a poll.
TickAccept ==
  /\ drain.pc # "exited"
  /\ ~DrainRunnable
  /\ drain.pc = "polling" => \E d \in PollTimes : now < drain.sent + d
  /\ now < MaxClockAccept
  /\ now' = now + 1
  /\ UNCHANGED <<cbVars, exporterVars>>

InitAccept ==
  /\ now = 0
  /\ circuit_breaker =
       CircuitBreaker(DefaultFailureThreshold, DefaultRecoveryTimeout)
  /\ cb_last = NoCall
  /\ cb_hist = [failed |-> 0, succeeded |-> FALSE]
  /\ MAX_RETRY_ATTEMPTS = MaxAttemptsAccept
  /\ RETRY_DELAY = MaxDelay
  /\ GRACE_PERIOD_SECONDS = MaxGrace
  /\ ModuleState
  /\ NothingTranslated
  /\ threads = [i \in Threads |-> ThreadNotStarted]
  /\ race_obs = NoRace
  /\ NoConnections
  /\ NoMonitor

NextAccept ==
  \/ ArriveAny
  \/ Accept
  \/ \E i \in Threads :
       \/ ThreadHealth(i)
       \/ ThreadEnter(i)
       \/ ThreadClock(i)
       \/ ThreadCacheCheck(i)
       \/ ThreadCacheReturn(i)
       \/ ThreadLatch(i)
       \/ ThreadGate(i)
       \/ ThreadGateOpen(i)
       \/ ThreadResponseAny(i)
       \/ ThreadStoreDoc(i)
       \/ ThreadStoreTime(i)
       \/ ThreadReset(i)
       \/ ThreadCountCall(i)
       \/ ThreadTrip(i)
       \/ ThreadCountAttempt(i)
       \/ ThreadAfterFailure(i)
       \/ ThreadWake(i)
  \/ SignalHandler
  \/ DrainPoll
  \/ DrainPollResponseAny
  \/ DrainWake
  \/ DrainExpire
  \/ HandlerLatch
  \/ HandlerExit
  \/ TickAccept

SpecAccept == InitAccept /\ [][NextAccept]_vars

(***************************************************************************)
(* The translator alone: any payload, translated up to MaxTranslations     *)
(* times.                                                                  *)
(***************************************************************************)
InitConvert ==
  /\ now = 0
  /\ circuit_breaker =
       CircuitBreaker(DefaultFailureThreshold, DefaultRecoveryTimeout)
  /\ cb_last = NoCall
  /\ cb_hist = [failed |-> 0, succeeded |-> FALSE]
  /\ MAX_RETRY_ATTEMPTS = DefaultMaxRetryAttempts
  /\ RETRY_DELAY = DefaultRetryDelay
  /\ GRACE_PERIOD_SECONDS = DefaultGracePeriod
  /\ ModuleState
  /\ payload \in Payloads
  /\ translated = <<>>
  /\ NoRequestThreads
  /\ NoConnections
  /\ NoMonitor

NextConvert == ConvertCall

SpecConvert == InitConvert /\ [][NextConvert]_vars

(***************************************************************************)
(* Claims about the breaker alone (checked under SpecCB).                  *)
(***************************************************************************)
\* C1: from a fresh breaker with threshold T and no successful operation so
\* far, fewer than T failed operations leave the state CLOSED (with
\* failure_count the number of failures), and exactly T failed operations
\* leave it OPEN with failure_count = T.
C1_OpensAtThreshold ==
  LET cb == circuit_breaker
  IN ~cb_hist.succeeded =>
       /\ cb_hist.failed < cb.failure_threshold =>
            cb.state = "CLOSED" /\ cb.failure_count = cb_hist.failed
       /\ cb_hist.failed = cb.failure_threshold =>
            cb.state = "OPEN" /\ cb.failure_count = cb.failure_threshold

\* C1 witness: a breaker with threshold >= 2 that has just been opened by its
\* T-th consecutive failure.
C1_Witness ==
  /\ circuit_breaker.failure_threshold >= 2
  /\ ~cb_hist.succeeded
  /\ cb_hist.failed = circuit_breaker.failure_threshold
  /\ cb_last.seen /\ cb_last.invoked = 1 /\ cb_last.pre.state = "CLOSED"
  /\ circuit_breaker.state = "OPEN"

\* C2: a call entered while OPEN with now - last_failure_time <=
\* recovery_timeout (equality included) raises the circuit-open error and
\* does not invoke the operation.
C2_RejectsWhileOpen ==
  (/\ cb_last.seen
   /\ cb_last.pre.state = "OPEN"
   /\ cb_last.at - cb_last.pre.last_failure_time
        <= cb_last.pre.recovery_timeout)
  => /\ cb_last.invoked = 0
     /\ cb_last.raised
     /\ cb_last.val = CircuitOpenError

\* C2 witness: a call rejected exactly recovery_timeout (> 0) seconds after
\* the last failure.
C2_Witness ==
  /\ cb_last.seen
  /\ cb_last.pre.state = "OPEN"
  /\ cb_last.pre.recovery_timeout > 0
  /\ cb_last.at - cb_last.pre.last_failure_time = cb_last.pre.recovery_timeout
  /\ cb_last.invoked = 0
  /\ cb_last.val = CircuitOpenError

\* C3: a call entered while OPEN with now - last_failure_time >
\* recovery_timeout invokes the operation once; if it returns, the state is
\* CLOSED, failure_count is 0 and its result is returned; if it raises, the
\* state is OPEN again, last_failure_time is the time of this failure,
\* failure_count is one higher and the same error is raised.
C3_HalfOpenProbe ==
  (/\ cb_last.seen
   /\ cb_last.pre.state = "OPEN"
   /\ cb_last.at - cb_last.pre.last_failure_time
        > cb_last.pre.recovery_timeout)
  => /\ cb_last.invoked = 1
     /\ cb_last.val = cb_last.op.val
     /\ IF cb_last.op.ok
          THEN /\ ~cb_last.raised
               /\ cb_last.post.state = "CLOSED"
               /\ cb_last.post.failure_count = 0
          ELSE /\ cb_last.raised
               /\ cb_last.post.state = "OPEN"
               /\ cb_last.post.last_failure_time = cb_last.end
               /\ cb_last.post.failure_count = cb_last.pre.failure_count + 1

\* C3 witness: a probe that took a second and failed, so the breaker is OPEN
\* again with the timer restarted at the end of the probe.
C3_Witness ==
  /\ cb_last.seen
  /\ cb_last.pre.state = "OPEN"
  /\ cb_last.at - cb_last.pre.last_failure_time > cb_last.pre.recovery_timeout
  /\ ~cb_last.op.ok
  /\ cb_last.end > cb_last.at
  /\ cb_last.post.state = "OPEN"
  /\ cb_last.post.last_failure_time = cb_last.end

\* C3, the other branch reached: a probe that returned and closed the breaker.
C3_ProbeSucceeded ==
  /\ cb_last.seen
  /\ cb_last.pre.state = "OPEN"
  /\ cb_last.op.ok
  /\ cb_last.invoked = 1
  /\ cb_last.post.state = "CLOSED"

\* C4: after every call in which the operation was invoked and returned
\* (Closed as well as HalfOpen), failure_count is 0.
C4_SuccessResetsCount ==
  (cb_last.seen /\ cb_last.invoked = 1 /\ ~cb_last.raised)
  => cb_last.post.failure_count = 0

\* C5 as claimed: state = OPEN implies failure_count >= failure_threshold and
\* now - last_failure_time < recovery_timeout.
C5_OpenOnlyWithinTimeout ==
  circuit_breaker.state = "OPEN" =>
    /\ circuit_breaker.failure_count >= circuit_breaker.failure_threshold
    /\ now - circuit_breaker.last_failure_time
         < circuit_breaker.recovery_timeout

\* C5 as amended: state = OPEN implies failure_count >= failure_threshold and
\* a last_failure_time that is set and not in the future; the time since
\* that failure is not bounded, the breaker staying OPEN until the next call.
C5_OpenImpliesThreshold ==
  circuit_breaker.state = "OPEN" =>
    /\ circuit_breaker.failure_count >= circuit_breaker.failure_threshold
    /\ circuit_breaker.last_failure_time # None
    /\ circuit_breaker.last_failure_time <= now

\* C5 witness: a breaker still OPEN more than recovery_timeout after its last
\* failure.
C5_Witness ==
  /\ circuit_breaker.state = "OPEN"
  /\ circuit_breaker.failure_threshold >= 2
  /\ now - circuit_breaker.last_failure_time
       > circuit_breaker.recovery_timeout

(***************************************************************************)
(* Claims about fetch_metrics (checked under Spec).                        *)
(***************************************************************************)
\* C6: entered with a cache entry present and now - last_metrics_time < 30,
\* fetch_metrics returns the cached document with no attempt through the
\* breaker and no upstream request, the breaker and the 'fetch' failure
\* counter unchanged; otherwise (entry absent, or aged 30 or more) it does
\* not return from the cache and goes on to the retry loop.
C6_CacheHitSkipsFetch ==
  [][FetchEnter =>
       IF /\ last_successful_metrics # NoMetrics
          /\ now - last_metrics_time < metrics_cache_ttl
         THEN /\ fetch'.pc = "idle"
              /\ fetch_obs'.done /\ ~fetch_obs'.raised
              /\ fetch_obs'.val = last_successful_metrics
              /\ fetch_obs'.attempts = 0 /\ fetch_obs'.invoked = 0
              /\ circuit_breaker' = circuit_breaker
              /\ healthcheck_failures' = healthcheck_failures
              /\ UNCHANGED cacheVars
         ELSE /\ fetch'.pc = "loop"
              /\ ~fetch_obs'.done
              /\ fetch'.attempt = 0]_vars

\* C6 witness: a call served from a cache entry aged 29 seconds.
C6_Witness ==
  /\ fetch_obs.seen /\ fetch_obs.done
  /\ fetch_obs.path = "cache"
  /\ fetch_obs.val = last_successful_metrics
  /\ now - last_metrics_time = metrics_cache_ttl - 1

\* C6, the other side reached: an entry aged exactly 30 seconds is not served;
\* the call is in the retry loop.
C6_MissAtTtl ==
  /\ fetch.pc = "loop"
  /\ last_successful_metrics # NoMetrics
  /\ now - last_metrics_time = metrics_cache_ttl

\* C7: when an attempt's upstream request succeeds, the document it returned
\* and the current time become the cache entry, the 'fetch' failure counter
\* is 0, the call ends (no further attempt) and returns that document.
C7_SuccessStoresAndReturns ==
  [][\A op \in Requests :
       (FetchResponse(op) /\ op.ok)
       => /\ last_successful_metrics' = op.val
          /\ last_metrics_time' = now
          /\ healthcheck_failures'.fetch = 0
          /\ fetch'.pc = "idle"
          /\ fetch_obs'.done /\ ~fetch_obs'.raised
          /\ fetch_obs'.val = op.val
          /\ fetch_obs'.attempts = fetch_obs.attempts
          /\ fetch_obs'.invoked = fetch_obs.invoked]_vars

\* C7 witness: a call that failed once, then fetched a document that replaced
\* a different cached one, the counter back at 0.
C7_Witness ==
  /\ fetch_obs.seen /\ fetch_obs.done
  /\ fetch_obs.path = "fresh"
  /\ fetch_obs.attempts >= 2
  /\ fetch_obs.entry.doc # NoMetrics
  /\ fetch_obs.val # fetch_obs.entry.doc
  /\ last_successful_metrics = fetch_obs.val
  /\ last_metrics_time = now
  /\ healthcheck_failures.fetch = 0

\* C8: when the last attempt of the budget fails too, the call returns the
\* cached document if one exists and the 'fetch' failure counter (this
\* failure counted) is >= 3, and raises the error of that attempt otherwise.
C8_StaleFallback ==
  [][\A op \in Requests :
       (/\ \/ FetchResponse(op) /\ ~op.ok
           \/ FetchAttempt /\ fetch_obs'.invoked = fetch_obs.invoked
        /\ fetch.attempt = fetch.max_attempts - 1)
       => /\ fetch'.pc = "idle"
          /\ fetch_obs'.done
          /\ healthcheck_failures'.fetch = healthcheck_failures.fetch + 1
          /\ IF /\ last_successful_metrics # NoMetrics
                /\ healthcheck_failures'.fetch >= 3
               THEN /\ ~fetch_obs'.raised
                    /\ fetch_obs'.val = last_successful_metrics
               ELSE /\ fetch_obs'.raised
                    /\ fetch_obs'.val =
                         IF fetch.pc = "loop" THEN CircuitOpenError
                                              ELSE op.val]_vars

\* C8 witness: a call whose attempts all failed and which returned the stale
\* cached document, the counter at 3 or more.
C8_Witness ==
  /\ fetch_obs.seen /\ fetch_obs.done
  /\ fetch_obs.path = "stale"
  /\ ~fetch_obs.raised
  /\ fetch_obs.val = last_successful_metrics
  /\ fetch_obs.invoked >= 1
  /\ healthcheck_failures.fetch >= StaleFailures
  /\ now - last_metrics_time >= metrics_cache_ttl

\* C8, the other side reached: a cached document exists but the counter is
\* below 3 after the last attempt, and the call raised.
C8_RaisedBelowThreshold ==
  /\ fetch_obs.seen /\ fetch_obs.done
  /\ fetch_obs.path = "error"
  /\ last_successful_metrics # NoMetrics
  /\ healthcheck_failures.fetch < StaleFailures

\* C9: a call entered when not draining, with no cached document and the
\* latch not set, whose attempts all fail and which the latch does not
\* abort, makes exactly MAX_RETRY_ATTEMPTS attempts through the breaker and
\* then raises the error of the last attempt.  (A budget with no attempt at
\* all has no last attempt; it is the subject of C12.)
C9_FullBudgetThenLastError ==
  (/\ fetch_obs.seen /\ fetch_obs.done
   /\ ~fetch_obs.entry.draining
   /\ ~fetch_obs.entry.latch
   /\ fetch_obs.entry.doc = NoMetrics
   /\ fetch_obs.path \notin {"fresh", "shutdown"}
   /\ MAX_RETRY_ATTEMPTS >= 1)
  => /\ fetch_obs.attempts = MAX_RETRY_ATTEMPTS
     /\ fetch_obs.raised
     /\ fetch_obs.val = fetch_obs.last_error
     /\ fetch_obs.val \in OpErrors \cup {CircuitOpenError}

\* C9 witness: four attempts, all failed, the upstream's error raised.
C9_Witness ==
  /\ fetch_obs.seen /\ fetch_obs.done
  /\ ~fetch_obs.entry.draining
  /\ fetch_obs.entry.doc = NoMetrics
  /\ fetch_obs.path = "error"
  /\ MAX_RETRY_ATTEMPTS >= 4
  /\ fetch_obs.attempts = MAX_RETRY_ATTEMPTS
  /\ fetch_obs.invoked = MAX_RETRY_ATTEMPTS
  /\ fetch_obs.val \in OpErrors

\* C10: a call entered while agent_draining is true whose attempts all fail
\* (and which the latch does not abort) makes exactly 3 attempts with a wait
\* of 1 second after the first and after the second, whatever
\* MAX_RETRY_ATTEMPTS and RETRY_DELAY are.
C10_DrainingBudget ==
  (/\ fetch_obs.seen /\ fetch_obs.done
   /\ fetch_obs.entry.draining
   /\ fetch_obs.path \in {"error", "stale"})
  => /\ fetch_obs.attempts = DrainingMaxAttempts
     /\ fetch_obs.waits = <<1, 1>>

\* C10 witness: such a call under a configuration of other values.
C10_Witness ==
  /\ fetch_obs.seen /\ fetch_obs.done
  /\ fetch_obs.entry.draining
  /\ fetch_obs.path \in {"error", "stale"}
  /\ MAX_RETRY_ATTEMPTS > DrainingMaxAttempts
  /\ RETRY_DELAY > DrainingRetryDelay
  /\ fetch_obs.attempts = 3
  /\ fetch_obs.waits = <<1, 1>>

\* C11: when the latch is set as an attempt is about to start, or is set
\* before the wait between two attempts ends, the next step of fetch_metrics
\* ends the call with the shutdown exception of that place; no attempt
\* through the breaker and no upstream request is made, the cached document
\* is not returned, and the cache, the counter and the breaker are untouched.
\* A latch set while an upstream request is in flight does not stop that
\* request; when it fails with attempts left, the wait that follows returns
\* at once and the call ends with the shutdown exception of the wait, the
\* cache untouched.
C11_ShutdownAborts ==
  /\ [][\A op \in Requests :
          (/\ FetchResponse(op)
           /\ ~op.ok
           /\ shutdown_event
           /\ fetch.attempt < fetch.max_attempts - 1)
          => /\ fetch'.pc = "idle"
             /\ fetch_obs'.done /\ fetch_obs'.raised
             /\ fetch_obs'.val = ShutdownDuringWait
             /\ fetch_obs'.attempts = fetch_obs.attempts
             /\ fetch_obs'.invoked = fetch_obs.invoked
             /\ UNCHANGED cacheVars]_vars
  /\ [][(/\ fetch.pc \in {"loop", "wait"}
         /\ fetch.attempt < fetch.max_attempts
         /\ shutdown_event
         /\ fetch' # fetch)
        => /\ fetch'.pc = "idle"
           /\ fetch_obs'.done /\ fetch_obs'.raised
           /\ fetch_obs'.val = IF fetch.pc = "loop" THEN ShutdownAtAttempt
                                                    ELSE ShutdownDuringWait
           /\ fetch_obs'.attempts = fetch_obs.attempts
           /\ fetch_obs'.invoked = fetch_obs.invoked
           /\ UNCHANGED <<circuit_breaker, cacheVars,
                          healthcheck_failures>>]_vars

\* C11, the latch set while the first request was in flight: the request
\* failed, was counted, and the call ended in the wait that never started.
C11_AbortedAfterRequest ==
  /\ fetch_obs.seen /\ fetch_obs.done
  /\ fetch_obs.val = ShutdownDuringWait
  /\ fetch_obs.attempts = 1 /\ fetch_obs.invoked = 1
  /\ fetch_obs.waits = <<>>
  /\ healthcheck_failures.fetch = fetch_obs.entry.failures + 1

\* C11 witness: a call aborted during its wait although a cached document
\* existed and the counter had reached 3.
C11_Witness ==
  /\ fetch_obs.seen /\ fetch_obs.done
  /\ fetch_obs.path = "shutdown"
  /\ fetch_obs.raised
  /\ fetch_obs.val = ShutdownDuringWait
  /\ shutdown_event
  /\ last_successful_metrics # NoMetrics
  /\ healthcheck_failures.fetch >= StaleFailures

\* C11, the other place reached: a call aborted as an attempt was to start.
C11_AbortedAtAttempt ==
  /\ fetch_obs.seen /\ fetch_obs.done
  /\ fetch_obs.val = ShutdownAtAttempt
  /\ fetch_obs.attempts = 0

\* C12: a fetch_metrics call that ends either raised or returned a document.
C12_DocumentOrError ==
  (fetch_obs.seen /\ fetch_obs.done /\ ~fetch_obs.raised)
  => fetch_obs.val # NoMetrics

(***************************************************************************)
(* Claims about the routes: /metrics under SpecCache, where the upstream   *)
(* may also serve null and malformed documents; /health under SpecServe.   *)
(***************************************************************************)
\* C13: whatever way the fetch_metrics call of a /metrics request ended, the
\* response has status 200; when the call raised (circuit open, shutdown,
\* retries exhausted) or the translation of what it returned raised, the
\* body is the minimal document: app_active_task_count 0,
\* app_active_request_count 0 and app_agent_status 0.
C13_MetricsAlways200 ==
  (fetch_obs.seen /\ fetch_obs.done)
  => LET response == MetricsResponse(fetch_obs.raised, fetch_obs.val)
     IN /\ response.status = 200
        /\ (fetch_obs.raised \/ Translate(Payload(fetch_obs.val)).raised)
             => /\ response.body = minimal_metrics
                /\ \A name \in {"app_active_task_count",
                                 "app_active_request_count",
                                 "app_agent_status"} :
                     \E i \in DOMAIN response.body :
                        response.body[i] = SampleLine(name, <<>>, 0)

\* C13 witness: a /metrics request whose fetch_metrics call returned no
\* document, so that the translation raised.
C13_Witness ==
  /\ fetch_obs.seen /\ fetch_obs.done
  /\ ~fetch_obs.raised
  /\ fetch_obs.val = NoMetrics
  /\ MetricsResponse(fetch_obs.raised, fetch_obs.val).body = minimal_metrics

\* C13, the failures the claim names reached: a call rejected by the open
\* breaker on its last attempt.
C13_CircuitOpen ==
  /\ fetch_obs.seen /\ fetch_obs.done
  /\ fetch_obs.raised
  /\ fetch_obs.val = CircuitOpenError

\* C14: a /health request is answered 503 'Shutting down' when the latch is
\* set, whatever the failure counter; otherwise 503 'Too many fetch
\* failures' when the 'fetch' failure counter is 11 or more; otherwise 200
\* 'OK' (a counter of 10 included).
C14_HealthStatus ==
  [][health_obs' # health_obs =>
       LET failures == healthcheck_failures.fetch
       IN /\ shutdown_event =>
               health_obs'.status = 503 /\ health_obs'.body = "Shutting down"
          /\ (~shutdown_event /\ failures >= 11) =>
               /\ health_obs'.status = 503
               /\ health_obs'.body = "Too many fetch failures"
          /\ (~shutdown_event /\ failures <= 10) =>
               health_obs'.status = 200 /\ health_obs'.body = "OK"]_vars

\* C14 witness: 'Shutting down' answered with the latch set and the counter
\* above 10.
C14_Witness ==
  /\ health_obs.seen
  /\ health_obs.body = "Shutting down"
  /\ shutdown_event
  /\ healthcheck_failures.fetch > HealthFailureLimit

\* C14, the boundary reached on both sides: 'Too many fetch failures' with
\* the counter at 11, and 'OK' with the counter at 10.
C14_TooManyAtEleven ==
  /\ health_obs.seen
  /\ health_obs.body = "Too many fetch failures"
  /\ healthcheck_failures.fetch = 11
  /\ fetch.pc = "wait"

C14_OkAtTen ==
  /\ health_obs.seen
  /\ health_obs.status = 200
  /\ healthcheck_failures.fetch = 10
  /\ fetch.pc = "idle"
  /\ fetch_obs.seen /\ fetch_obs.path \in {"error", "stale"}

\* C15: answering /health changes nothing but the response: no fetch_metrics
\* call is started or advanced, no attempt goes through the breaker, no
\* upstream request is made, and the cache entry, the failure counter, the
\* breaker, the drain flags, the handler and the clock are as before.
C15_HealthReadsOnly ==
  [][health_obs' # health_obs =>
       UNCHANGED <<now, circuit_breaker, cacheVars, healthcheck_failures,
                   flagVars, fetch, fetch_obs, drain>>]_vars

\* C15 witness: /health answered 'Too many fetch failures' while the breaker
\* is open, a fetch_metrics call is waiting and the agent is draining; the
\* counter and the breaker are as the fetcher left them.
C15_Witness ==
  /\ health_obs.seen
  /\ health_obs.body = "Too many fetch failures"
  /\ healthcheck_failures.fetch > HealthFailureLimit
  /\ circuit_breaker.state = "OPEN"
  /\ agent_draining /\ ~shutdown_event
  /\ fetch.pc = "idle"

(***************************************************************************)
(* Claims about the signal handler and the drain loop (checked under       *)
(* SpecSignals).                                                           *)
(***************************************************************************)
\* C16: the step that handles a signal sets agent_draining and enters the
\* poll loop with no poll made yet; having left its loop the handler does
\* not enter it again; the latch is set only by the handler that has left
\* its loop, and the process exits, with status 0, only after the latch is
\* set.  With one signal delivered, the latch is never set while the loop
\* is running.
C16_HandlerOrder ==
  /\ [][/\ (drain.pc = "none" /\ drain' # drain)
             => /\ agent_draining'
                /\ drain'.pc = "poll" /\ drain'.polls = 0
                /\ ~shutdown_event'
        /\ (drain.pc \in {"poll", "polling", "sleep"}
              /\ drain'.polls # drain.polls)
             => agent_draining
        /\ (drain.pc \in {"latch", "exit"} /\ drain' # drain
              /\ drain'.pc \in {"poll", "polling", "sleep"})
             => drain'.signals = drain.signals + 1
        /\ shutdown_event' # shutdown_event
             => /\ drain.pc = "latch"
                /\ shutdown_event'
                /\ drain'.pc = "exit"
        /\ (drain'.pc = "exited" /\ drain.pc # "exited")
             => /\ drain.pc = "exit"
                /\ shutdown_event
                /\ drain'.status = 0]_vars
  /\ []((drain.pc \in {"poll", "polling", "sleep"} /\ drain.signals = 1)
          => ~shutdown_event)

\* C16 witness: one signal, a loop of two polls or more that has ended, the
\* latch set, the process about to exit.
C16_Witness ==
  /\ drain.pc = "exit"
  /\ drain.signals = 1
  /\ drain.polls >= 2
  /\ agent_draining
  /\ shutdown_event

\* C17: a poll that answers 200 is followed by a sleep of PollPause seconds
\* from its answer and, the grace period not being over, by the next poll; a
\* poll that answers another status or raises ends the loop, and the handler
\* makes no poll after that.
C17_PollLoop ==
  [][/\ \A a \in PollAnswers :
          DrainPollResponse(a) =>
            IF a.status = "200"
              THEN drain'.pc = "sleep" /\ drain'.wake = now + PollPause
              ELSE drain'.pc = "latch"
     /\ (drain.pc = "polling" /\ drain' # drain
           /\ drain'.signals = drain.signals)
          => drain'.polls = drain.polls
     /\ (drain.pc = "sleep" /\ drain'.pc = "poll"
           /\ drain'.signals = drain.signals)
          => now >= drain.wake /\ drain'.polls = drain.polls
     /\ (drain.pc = "poll" /\ now - drain.start_time < GRACE_PERIOD_SECONDS
           /\ drain' # drain /\ drain'.signals = drain.signals)
          => drain'.pc = "polling" /\ drain'.polls = drain.polls + 1
     /\ (drain.pc \in {"latch", "exit"} /\ drain' # drain
           /\ drain'.pc # "exited" /\ drain'.signals = drain.signals)
          => drain'.polls = drain.polls]_vars

\* C17 witness: the loop left on its second poll, before the grace period is
\* over.
C17_Witness ==
  /\ drain.pc = "latch"
  /\ drain.polls = 2
  /\ now - drain.start_time < GRACE_PERIOD_SECONDS
  /\ ~shutdown_event

\* C17, the other side reached: the loop still polling 200s, a second poll
\* made.
C17_StillPolling ==
  /\ drain.pc = "sleep"
  /\ drain.polls = 2

\* C18: the latch is set no later than GRACE_PERIOD_SECONDS plus one poll
\* iteration (a poll of up to PollTimeout seconds and the pause after it)
\* after the first signal, whatever the upstream answers and however many
\* signals follow the first.
C18_LatchWithinGrace ==
  [][(shutdown_event' /\ ~shutdown_event)
     => now - drain.first
          <= GRACE_PERIOD_SECONDS + PollTimeout + PollPause]_vars

\* C18, what does hold: the latch is set no later than GRACE_PERIOD_SECONDS
\* plus one poll iteration after the last signal handled.
C18_LatchWithinGraceOfLastSignal ==
  [][(shutdown_event' /\ ~shutdown_event)
     => now - drain.start_time
          <= GRACE_PERIOD_SECONDS + PollTimeout + PollPause]_vars

\* C19: agent_draining never goes back to false, the latch is never cleared,
\* and the latch is set only when agent_draining is true.
C19_FlagsMonotonic ==
  /\ [][/\ agent_draining => agent_draining'
        /\ shutdown_event => shutdown_event']_vars
  /\ [](shutdown_event => agent_draining)

\* C19 witness: a second signal has been handled and the latch is set,
\* agent_draining still true.
C19_Witness ==
  /\ drain.pc = "exit"
  /\ drain.signals = 2
  /\ agent_draining
  /\ shutdown_event

\* C20: a step of the signal handler or of the drain loop leaves the cache
\* entry, the 'fetch' failure counter and the breaker as they are; a step of
\* fetch_metrics (and so of /metrics) or of /health leaves agent_draining
\* and the latch as they are.
C20_SingleWriter ==
  [][/\ drain' # drain
          => UNCHANGED <<cacheVars, healthcheck_failures, circuit_breaker>>
     /\ (fetch' # fetch \/ fetch_obs' # fetch_obs \/ health_obs' # health_obs)
          => UNCHANGED flagVars]_vars

\* C20 witness: a drain poll has failed and ended the loop while the counter
\* and the breaker's count are still 0 and the cache holds the document of an
\* earlier fetch; /health has been answered.
C20_Witness ==
  /\ drain.pc = "latch"
  /\ drain.polls >= 1
  /\ now - drain.start_time < GRACE_PERIOD_SECONDS
  /\ healthcheck_failures.fetch = 0
  /\ circuit_breaker.failure_count = 0
  /\ last_successful_metrics # NoMetrics
  /\ health_obs.seen

(***************************************************************************)
(* The failure handed to the caller of the breaker (checked under SpecCB). *)
(***************************************************************************)
\* C30: whenever call() invoked the operation and it failed, from CLOSED or
\* HALF_OPEN and whether or not the breaker opened on it, the caller gets
\* the very error the operation raised; the circuit-open error is raised
\* only by calls that did not invoke the operation.
C30_UnderlyingFailure ==
  cb_last.seen =>
    /\ (cb_last.invoked = 1 /\ ~cb_last.op.ok) =>
         /\ cb_last.raised
         /\ cb_last.val = cb_last.op.val
    /\ (cb_last.raised /\ cb_last.val = CircuitOpenError) =>
         cb_last.invoked = 0

\* A failure in CLOSED state opened the breaker and was itself re-raised.
C30_Witness ==
  /\ cb_last.seen
  /\ cb_last.invoked = 1
  /\ ~cb_last.op.ok
  /\ cb_last.pre.state = "CLOSED"
  /\ cb_last.post.state = "OPEN"
  /\ cb_last.raised
  /\ cb_last.val = cb_last.op.val

\* A failure of the trial call in HALF_OPEN state was re-raised as it was.
C30_TrialFailure ==
  /\ cb_last.seen
  /\ cb_last.invoked = 1
  /\ ~cb_last.op.ok
  /\ cb_last.pre.state = "OPEN"
  /\ cb_last.post.state = "OPEN"
  /\ cb_last.val = cb_last.op.val

(***************************************************************************)
(* Claims about the translator (checked under SpecConvert, and under      *)
(* SpecCache for the responses of /metrics).                               *)
(***************************************************************************)
\* The fields of the buildInfo of a mapping, none when it has no buildInfo
\* that is a mapping.
BuildFieldsOf(fields) ==
  IF "buildInfo" \in DOMAIN fields /\ fields["buildInfo"].kind = "object"
    THEN fields["buildInfo"].fields
    ELSE <<>>

\* The translation out is made of the fields present and of the defaults
\* for the fields missing.
FieldsOrDefaults(fields, out) ==
  LET bi == BuildFieldsOf(fields)
      OrDefault(mapping, key, default) ==
        IF key \in DOMAIN mapping THEN mapping[key] ELSE default
  IN /\ ~out.raised
     /\ out.val[3].labels =
          [version |-> OrDefault(bi, "version", "unknown"),
           commit_hash |-> OrDefault(bi, "commitHash", "unknown"),
           build_timestamp |-> OrDefault(bi, "buildTimestamp", 0)]
     /\ out.val[6].value =
          (IF "agentStatus" \in DOMAIN fields
                /\ fields["agentStatus"] = "RUNNING" THEN 1 ELSE 0)
     /\ out.val[9].value = OrDefault(fields, "activeTaskCount", 0)
     /\ out.val[12].value = OrDefault(fields, "activeRequestCount", 0)
     /\ out.val[15].value = OrDefault(fields, "openSessionsCount", 0)

\* C24: for every document that is a mapping, the translation carries each
\* field present and the default of each field missing: "unknown" for
\* version and commit_hash, 0 for build_timestamp and the three counts, and
\* app_agent_status 1 exactly when agentStatus is "RUNNING".
C24_FieldsAndDefaults ==
  \A i \in DOMAIN translated :
    payload.kind = "object" => FieldsOrDefaults(payload.fields, translated[i])

\* The same for the mappings whose buildInfo is absent or a mapping.
C24_DefaultsWhenBuildInfoIsMapping ==
  \A i \in DOMAIN translated :
    (/\ payload.kind = "object"
     /\ "buildInfo" \in DOMAIN payload.fields
          => payload.fields["buildInfo"].kind = "object")
      => FieldsOrDefaults(payload.fields, translated[i])

\* C25: convert_to_prometheus never raises, whatever the payload: no
\* document, a JSON value that is not a mapping, a buildInfo that is null or
\* not a mapping.
C25_ConvertNeverRaises ==
  \A i \in DOMAIN translated : ~translated[i].raised

\* The names of the five metrics, in the order of the output.
MetricNames ==
  << "app_version_info", "app_agent_status", "app_active_task_count",
     "app_active_request_count", "app_open_sessions_count" >>

\* The translation out is five blocks in the order of MetricNames, each a
\* HELP line, a TYPE gauge line and a sample.
FiveBlocks(out) ==
  /\ ~out.raised
  /\ Len(out.val) = 15
  /\ \A b \in 1..5 :
       /\ out.val[3 * b - 2] = [line |-> "HELP", name |-> MetricNames[b]]
       /\ out.val[3 * b - 1] =
            [line |-> "TYPE", name |-> MetricNames[b], type |-> "gauge"]
       /\ out.val[3 * b].line = "sample"
       /\ out.val[3 * b].name = MetricNames[b]

\* C26: for every mapping the translation is exactly five blocks in the
\* fixed order version info, agent status, task count, request count, open
\* sessions; each block a HELP line, a TYPE gauge line and a sample (15
\* lines).
C26_FiveBlocksInOrder ==
  \A i \in DOMAIN translated :
    payload.kind = "object" => FiveBlocks(translated[i])

\* The same for the mappings whose buildInfo is absent or a mapping.
C26_FiveBlocksWhenBuildInfoIsMapping ==
  \A i \in DOMAIN translated :
    (/\ payload.kind = "object"
     /\ "buildInfo" \in DOMAIN payload.fields
          => payload.fields["buildInfo"].kind = "object")
      => FiveBlocks(translated[i])

\* The metric called name has its HELP line, its TYPE gauge line and a
\* sample in the body.
HasMetric(body, name) ==
  /\ \E i \in DOMAIN body : body[i] = [line |-> "HELP", name |-> name]
  /\ \E i \in DOMAIN body :
       body[i] = [line |-> "TYPE", name |-> name, type |-> "gauge"]
  /\ \E i \in DOMAIN body : body[i].line = "sample" /\ body[i].name = name

\* The names of the metrics that have a sample in the body.
NamesIn(body) ==
  { body[i].name : i \in { k \in DOMAIN body : body[k].line = "sample" } }

\* The three metrics of the minimal document.
FallbackNames ==
  {"app_active_task_count", "app_active_request_count", "app_agent_status"}

\* C27: every response of GET /metrics has a HELP line, a TYPE gauge line
\* and a sample for all five metrics (so that the set of metric names is the
\* same in every response).
C27_AllFiveInEveryResponse ==
  (fetch_obs.seen /\ fetch_obs.done)
  => LET response == MetricsResponse(fetch_obs.raised, fetch_obs.val)
     IN \A b \in 1..5 : HasMetric(response.body, MetricNames[b])

\* The document is a mapping whose buildInfo is absent or a mapping.
WellFormed(doc) ==
  LET value == Payload(doc)
  IN /\ value.kind = "object"
     /\ "buildInfo" \in DOMAIN value.fields
          => value.fields["buildInfo"].kind = "object"

\* C27 as amended: every response of GET /metrics has the HELP line, the
\* TYPE gauge line and a sample of app_active_task_count,
\* app_active_request_count and app_agent_status; it has all five metrics
\* when fetch_metrics returned a mapping whose buildInfo is absent or a
\* mapping, and exactly those three when fetch_metrics raised, returned no
\* document or returned any other value.
C27_ThreeAlwaysFiveOnDocument ==
  (fetch_obs.seen /\ fetch_obs.done)
  => LET response == MetricsResponse(fetch_obs.raised, fetch_obs.val)
         fallback == fetch_obs.raised \/ ~WellFormed(fetch_obs.val)
     IN /\ \A name \in FallbackNames : HasMetric(response.body, name)
        /\ ~fallback =>
             /\ \A b \in 1..5 : HasMetric(response.body, MetricNames[b])
             /\ NamesIn(response.body) = { MetricNames[b] : b \in 1..5 }
        /\ fallback => NamesIn(response.body) = FallbackNames

\* C27 witness: after a response with all five metrics (its document is
\* still cached), a request whose fetch raised is answered with three.
C27_Witness ==
  /\ fetch_obs.seen /\ fetch_obs.done
  /\ fetch_obs.raised
  /\ last_successful_metrics # NoMetrics
  /\ NamesIn(MetricsResponse(fetch_obs.raised, fetch_obs.val).body)
       = FallbackNames

\* fetch_metrics returned a malformed document (fresh, from the cache or as
\* the stale fallback) and the response has the three metrics.
C27_ThreeOnMalformed ==
  /\ fetch_obs.seen /\ fetch_obs.done
  /\ ~fetch_obs.raised
  /\ fetch_obs.val \in MalformedDocs
  /\ NamesIn(MetricsResponse(fetch_obs.raised, fetch_obs.val).body)
       = FallbackNames

\* The same for each of the malformed documents, and for the cached one.
C27_ThreeOnNullBuildInfo ==
  C27_ThreeOnMalformed /\ fetch_obs.val = "docNullBuildInfo"

C27_ThreeOnList ==
  C27_ThreeOnMalformed /\ fetch_obs.val = "docList"

C27_ThreeOnCachedMalformed ==
  C27_ThreeOnMalformed /\ fetch_obs.path = "cache"

\* A response with all five metrics.
C27_FiveOnDocument ==
  /\ fetch_obs.seen /\ fetch_obs.done
  /\ ~fetch_obs.raised
  /\ WellFormed(fetch_obs.val)
  /\ Cardinality(NamesIn(MetricsResponse(fetch_obs.raised,
                                         fetch_obs.val).body)) = 5

(***************************************************************************)
(* The life of the cache entry (checked under SpecCache).                  *)
(***************************************************************************)
\* A step that changes the cache entry is the return of an upstream request
\* of fetch_metrics that succeeded; the steps that end a call any
\* other way (cache hit, stale fallback, failure, shutdown) change neither
\* the document nor its timestamp.
ChangesOnlyOnSuccess ==
  /\ (<<last_successful_metrics, last_metrics_time>>'
        # <<last_successful_metrics, last_metrics_time>>)
       => /\ fetch.pc = "request"
          /\ fetch_obs'.done
          /\ fetch_obs'.path = "fresh"
          /\ last_metrics_time' = now'
  /\ (/\ fetch_obs' # fetch_obs
      /\ fetch_obs'.done
      /\ fetch_obs'.path \in {"cache", "stale", "error", "shutdown",
                               "fell_off"})
       => UNCHANGED <<last_successful_metrics, last_metrics_time>>

\* C29: the cache entry is absent at start and changes only when an upstream
\* attempt of fetch_metrics succeeds (a cache hit, a failed attempt, a
\* shutdown abort and a stale return leave document and timestamp as they
\* are), and an entry that is present is never removed.
C29_CacheLifecycle ==
  /\ last_successful_metrics = NoMetrics /\ last_metrics_time = None
  /\ [][/\ ChangesOnlyOnSuccess
        /\ last_successful_metrics # NoMetrics
             => last_successful_metrics' # NoMetrics]_vars

\* The frame part alone: absent at start, changed only by a successful
\* attempt.
C29_FrameOnly ==
  /\ last_successful_metrics = NoMetrics /\ last_metrics_time = None
  /\ [][ChangesOnlyOnSuccess]_vars

\* A present entry has been replaced by no document.
C29_EntryRemoved ==
  /\ fetch_obs.seen /\ fetch_obs.done
  /\ fetch_obs.path = "fresh"
  /\ fetch_obs.entry.doc # NoMetrics
  /\ last_successful_metrics = NoMetrics
  /\ last_metrics_time = now

(***************************************************************************)
(* Request threads sharing the module state (checked under SpecRace).      *)
(***************************************************************************)
\* The pairs (document, timestamp) that belong together: the absent entry of
\* the start, and for each fetch that has stored both, its document with its
\* timestamp.
PairsWritten ==
  {<<NoMetrics, None>>}
    \cup { <<threads[i].doc, threads[i].stamp>> :
             i \in { j \in Threads : threads[j].stamp # None } }

\* C21: with several request threads in fetch_metrics, the document and its
\* timestamp change as one: the pair a thread reads at its cache check is
\* the pair of one fetch (never a new document with an old or absent
\* timestamp), and when all fetches have ended the cache holds the document
\* and the timestamp of the same fetch.
C21_CachePairAtomic ==
  /\ \A i \in Threads : threads[i].seen \in PairsWritten
  /\ (\A i \in Threads : threads[i].pc = "done")
       => <<last_successful_metrics, last_metrics_time>> \in PairsWritten

\* Two fetches have ended and the cache holds the document of one with the
\* timestamp of the other.
C21_MixedPair ==
  /\ \A i \in Threads : threads[i].pc = "done" /\ threads[i].result = "fresh"
  /\ <<last_successful_metrics, last_metrics_time>> \notin PairsWritten

\* C22: while no upstream request has succeeded, no increment of the request
\* threads is lost: the 'fetch' counter is the number of failed attempts
\* counted so far, and failure_count of the breaker the number of failed
\* invocations counted so far.
C22_NoLostIncrement ==
  race_obs.successes = 0
  => /\ healthcheck_failures.fetch = race_obs.failed_attempts
     /\ circuit_breaker.failure_count = race_obs.failed_calls

\* All attempts of both threads failed, six in all, and the counters show
\* fewer.
C22_LostIncrements ==
  /\ \A i \in Threads : threads[i].pc = "done" /\ threads[i].result = "error"
  /\ race_obs.successes = 0
  /\ race_obs.failed_attempts = 6
  /\ healthcheck_failures.fetch < 6
  /\ circuit_breaker.failure_count < race_obs.failed_calls

(***************************************************************************)
(* Serving while draining (checked under SpecAccept).                      *)
(***************************************************************************)
\* C23: the poll loop of the drain does not keep requests from being served:
\* a /metrics or /health request that arrived while the drain was polling,
\* a full poll pause or more before the process ended, has been accepted
\* (and handed to its request thread) by the time the process ends.
C23_ServedWhileDraining ==
  drain.pc = "exited"
  => \A k \in DOMAIN backlog :
       backlog[k].draining => now - backlog[k].at < PollPause

\* The process has ended and a request that arrived during the drain, a
\* whole grace period of two seconds or more earlier, was never accepted.
C23_NeverAccepted ==
  /\ drain.pc = "exited"
  /\ GRACE_PERIOD_SECONDS > PollPause
  /\ \E k \in DOMAIN backlog :
       /\ backlog[k].draining
       /\ now - backlog[k].at >= GRACE_PERIOD_SECONDS

\* Requests that arrived before the signal were accepted and answered.
C23_ServedBeforeSignal ==
  /\ drain.pc = "exited"
  /\ health_obs.seen
  /\ \E i \in Threads :
       threads[i].pc = "done" /\ threads[i].result = "fresh"

\* A /health request accepted before the signal is answered by its thread
\* after the latch was set: 503.
C23_HealthAcrossLatch ==
  /\ drain.pc = "exit"
  /\ health_obs.seen
  /\ health_obs.status = 503 /\ health_obs.body = "Shutting down"

\* A /metrics request accepted before the signal enters fetch_metrics after
\* the handler marked the agent as draining: it has the draining budget.
C23_MetricsAcrossSignal ==
  /\ drain.pc \in {"poll", "polling", "sleep"}
  /\ MAX_RETRY_ATTEMPTS # DrainingMaxAttempts
  /\ \E i \in Threads :
       /\ threads[i].pc = "gate"
       /\ threads[i].max_attempts = DrainingMaxAttempts
       /\ threads[i].retry_delay = DrainingRetryDelay

\* A thread that found the latch clear at line 129 has not read the
\* breaker's state yet when the handler sets the latch: it goes on into
\* CircuitBreaker.call.
C23_LatchSetAfterTest ==
  /\ shutdown_event
  /\ \E i \in Threads : threads[i].pc = "cb_state"

\* Such a thread reads the breaker OPEN, after another thread's failure
\* has opened it.
C23_OpenReadAfterLatch ==
  /\ shutdown_event
  /\ circuit_breaker.state = "OPEN"
  /\ \E i \in Threads : threads[i].pc = "gate_clock"

\* Two /metrics requests inside fetch_metrics at once, one of them in its
\* wait between attempts.
C23_TwoCalls ==
  /\ threads["t1"].pc = "wait"
  /\ threads["t2"].pc = "gate"

\* A thread in its wait between attempts when the latch was set has ended
\* its call with the shutdown exception.
C23_WaitAborted ==
  /\ shutdown_event
  /\ \E i \in Threads :
       /\ threads[i].pc = "done"
       /\ threads[i].result = "shutdown"
       /\ threads[i].wake > 0

(***************************************************************************)
(* Rejected calls (checked under SpecCB).                                  *)
(***************************************************************************)
\* C36: a call rejected by the open breaker leaves state, failure_count and
\* last_failure_time as they were; last_failure_time changes only when an
\* invoked operation fails, so that rejections never restart the recovery
\* timer, and a call made more than recovery_timeout after the last failure
\* is admitted however many calls were rejected before it.
C36_RejectionChangesNothing ==
  /\ [][circuit_breaker'.last_failure_time # circuit_breaker.last_failure_time
          => /\ cb_last'.invoked = 1
             /\ ~cb_last'.op.ok
             /\ circuit_breaker'.last_failure_time = cb_last'.end]_vars
  /\ [](cb_last.seen =>
          /\ cb_last.invoked = 0 =>
               /\ cb_last.post = cb_last.pre
               /\ cb_last.pre.state = "OPEN"
               /\ cb_last.at - cb_last.pre.last_failure_time
                    <= cb_last.pre.recovery_timeout
          /\ (/\ cb_last.pre.state = "OPEN"
              /\ cb_last.at - cb_last.pre.last_failure_time
                   > cb_last.pre.recovery_timeout)
               => cb_last.invoked = 1)

\* C36 witness: a call rejected some time after the last failure, the
\* breaker and its timer as before.
C36_Witness ==
  /\ cb_last.seen
  /\ cb_last.invoked = 0
  /\ cb_last.at > cb_last.pre.last_failure_time
  /\ circuit_breaker = cb_last.pre
  /\ circuit_breaker.state = "OPEN"

\* A call admitted once the timeout had passed.
C36_AdmittedAfterTimeout ==
  /\ cb_last.seen
  /\ cb_last.pre.state = "OPEN"
  /\ cb_last.invoked = 1
  /\ cb_last.at - cb_last.pre.last_failure_time
       = cb_last.pre.recovery_timeout + 1

(***************************************************************************)
(* Failed attempts, the budget and the stale fallback (checked under       *)
(* Spec).                                                                  *)
(***************************************************************************)
\* C33: in a fetch_metrics call every failed attempt, an attempt rejected by
\* the open breaker included, adds one to the 'fetch' failure counter and
\* uses up one attempt of the budget: as long as no attempt of the call has
\* succeeded the counter is its value at entry plus the attempts that have
\* ended (all those started but the one whose request is in flight), and
\* the attempts started never exceed the budget.
C33_EveryFailureCounted ==
  (fetch_obs.seen /\ fetch_obs.path # "fresh")
  => /\ healthcheck_failures.fetch
          = fetch_obs.entry.failures + fetch_obs.attempts
              - (IF fetch.pc = "request" THEN 1 ELSE 0)
     /\ fetch.pc = "loop" => fetch.attempt = fetch_obs.attempts
     /\ fetch.pc = "request" => fetch.attempt + 1 = fetch_obs.attempts
     /\ fetch.pc = "wait" => fetch.attempt + 1 = fetch_obs.attempts
     /\ fetch.pc # "idle" => fetch_obs.attempts <= fetch.max_attempts
     /\ fetch_obs.invoked <= fetch_obs.attempts

\* C33 witness: a call of four attempts that all failed, one of them at
\* least rejected by the open breaker without a request, the counter four
\* higher than at entry.
C33_Witness ==
  /\ fetch_obs.seen /\ fetch_obs.done
  /\ fetch_obs.path = "error"
  /\ fetch_obs.attempts = 4
  /\ fetch_obs.invoked < fetch_obs.attempts
  /\ fetch_obs.val = CircuitOpenError
  /\ healthcheck_failures.fetch = fetch_obs.entry.failures + 4

\* C37: the budget of a fetch_metrics call is the one taken at its entry
\* from agent_draining: a signal that sets agent_draining while the call is
\* in its loop changes neither the number of attempts nor the wait, and the
\* call ends before its budget is used up only by a success or by the latch.
C37_BudgetFixedAtEntry ==
  fetch_obs.seen
  => LET budget == MaxAttemptsFor(fetch_obs.entry.draining,
                                  MAX_RETRY_ATTEMPTS)
         delay == RetryDelayFor(fetch_obs.entry.draining, RETRY_DELAY)
     IN /\ fetch.pc \in {"loop", "request", "wait"}
             => /\ fetch.max_attempts = budget
                /\ fetch.retry_delay = delay
        /\ \A k \in DOMAIN fetch_obs.waits : fetch_obs.waits[k] = delay
        /\ (fetch_obs.done /\ fetch_obs.path \in {"error", "stale"})
             => fetch_obs.attempts = budget
        /\ (fetch_obs.done /\ fetch_obs.path = "shutdown")
             => shutdown_event

\* C37 witness: a call entered before the signal made its four attempts
\* with waits of RETRY_DELAY and ended while agent_draining was set and the
\* latch was not.
C37_Witness ==
  /\ fetch_obs.seen /\ fetch_obs.done
  /\ ~fetch_obs.entry.draining
  /\ agent_draining
  /\ ~shutdown_event
  /\ fetch_obs.path = "error"
  /\ MAX_RETRY_ATTEMPTS > DrainingMaxAttempts
  /\ RETRY_DELAY > DrainingRetryDelay
  /\ fetch_obs.attempts = MAX_RETRY_ATTEMPTS
  /\ Len(fetch_obs.waits) = MAX_RETRY_ATTEMPTS - 1

\* C38: a fetch_metrics call entered with a cached document and a budget of
\* three attempts or more, whose attempts all fail and which the latch does
\* not abort, returns the cached document and does not raise, whatever the
\* failure counter was at entry; so does every such call entered while
\* draining.
C38_StaleNeverRaises ==
  (/\ fetch_obs.seen /\ fetch_obs.done
   /\ fetch_obs.entry.doc # NoMetrics
   /\ MaxAttemptsFor(fetch_obs.entry.draining, MAX_RETRY_ATTEMPTS)
        >= StaleFailures
   /\ fetch_obs.path \notin {"cache", "fresh", "shutdown"})
  => /\ ~fetch_obs.raised
     /\ fetch_obs.path = "stale"
     /\ fetch_obs.val = fetch_obs.entry.doc
     /\ fetch_obs.val = last_successful_metrics

\* C38 witness: a call entered while draining with the counter at 0 and an
\* expired document, whose three attempts failed; it returned the document.
C38_Witness ==
  /\ fetch_obs.seen /\ fetch_obs.done
  /\ fetch_obs.entry.draining
  /\ fetch_obs.entry.failures = 0
  /\ fetch_obs.entry.doc # NoMetrics
  /\ fetch_obs.attempts = 3
  /\ fetch_obs.path = "stale"
  /\ ~fetch_obs.raised
  /\ ~shutdown_event

(***************************************************************************)
(* The exporter failing and recovering: /metrics requests with a budget of *)
(* one or two attempts, /health requests at any moment, no signal, and a   *)
(* pause between requests long enough for the open breaker to try again.   *)
(***************************************************************************)
\* A pause that ends just after the recovery timeout of the breaker.
IdleRecover == Idle(DefaultRecoveryTimeout + 1)

InitRecover ==
  /\ now = 0
  /\ circuit_breaker =
       CircuitBreaker(DefaultFailureThreshold, DefaultRecoveryTimeout)
  /\ cb_last = NoCall
  /\ cb_hist = [failed |-> 0, succeeded |-> FALSE]
  /\ MAX_RETRY_ATTEMPTS \in 1..MaxDelay
  /\ RETRY_DELAY = 1
  /\ GRACE_PERIOD_SECONDS = 0
  /\ ModuleState
  /\ Alone

NextRecover ==
  \/ FetchEnter
  \/ FetchAttempt
  \/ FetchResponseAny
  \/ FetchWaitExpire
  \/ Health
  \/ Tick
  \/ IdleAny
  \/ IdleRecover

SpecRecover == InitRecover /\ [][NextRecover]_vars

\* C34: the 'fetch' failure counter goes down only by a successful upstream
\* fetch, which sets it to 0; a call served from the cache or from the stale
\* fallback never lowers it; /health answers 503 whenever the counter is
\* above 10 and, the latch not being set, 200 right after a successful
\* fetch.
C34_DegradationReversible ==
  [][/\ (healthcheck_failures'.fetch < healthcheck_failures.fetch)
          => (/\ healthcheck_failures'.fetch = 0
              /\ fetch_obs'.done /\ fetch_obs'.path = "fresh"
              /\ fetch.pc = "request")
     /\ (fetch_obs' # fetch_obs /\ fetch_obs'.done
           /\ fetch_obs'.path = "fresh")
          => (/\ healthcheck_failures'.fetch = 0
              /\ shutdown_event'
                   \/ HealthResponse(shutdown_event',
                                     healthcheck_failures'.fetch).status
                        = 200)
     /\ (fetch_obs' # fetch_obs /\ fetch_obs'.done
           /\ fetch_obs'.path \in {"cache", "stale"})
          => (healthcheck_failures'.fetch >= healthcheck_failures.fetch)
     /\ (health_obs' # health_obs)
          => (/\ health_obs'
                   = HealthResponse(shutdown_event,
                                    healthcheck_failures.fetch)
              /\ healthcheck_failures.fetch <= HealthFailureLimit
                   \/ health_obs'.status = 503
              /\ shutdown_event \/ healthcheck_failures.fetch # 0
                   \/ health_obs'.status = 200)]_vars

\* C34 witness: /health answers 200 after a successful fetch that found the
\* counter above 10.
C34_Witness ==
  /\ fetch_obs.seen /\ fetch_obs.done
  /\ fetch_obs.path = "fresh"
  /\ fetch_obs.entry.failures > HealthFailureLimit
  /\ healthcheck_failures.fetch = 0
  /\ health_obs.seen /\ health_obs.status = 200

\* /health answering 503 for the counter alone, the exporter serving the
\* stale document.
C34_DegradedWhileStale ==
  /\ fetch_obs.seen /\ fetch_obs.done
  /\ fetch_obs.path = "stale"
  /\ healthcheck_failures.fetch > HealthFailureLimit
  /\ health_obs.seen /\ health_obs.status = 503
  /\ health_obs.body = "Too many fetch failures"

(***************************************************************************)
(* A breaker with a small threshold and timeout called by the request      *)
(* threads, so that trials in HALF_OPEN happen while other calls are in    *)
(* flight.                                                                 *)
(***************************************************************************)
InitProbe ==
  /\ now = 0
  /\ \E T \in 1..MaxProbeThreshold, R \in 0..MaxProbeRecovery :
       circuit_breaker = CircuitBreaker(T, R)
  /\ cb_last = NoCall
  /\ cb_hist = [failed |-> 0, succeeded |-> FALSE]
  /\ MAX_RETRY_ATTEMPTS = DrainingMaxAttempts
  /\ RETRY_DELAY = DrainingRetryDelay
  /\ GRACE_PERIOD_SECONDS = DefaultGracePeriod
  /\ ModuleState
  /\ Alone

SpecProbe == InitProbe /\ [][NextRace]_vars

\* A thread ends the handling of a failed operation (lines 45-51).
FailureHandled(i) ==
  /\ threads[i].pc = "cb_trip"
  /\ threads'[i].pc = "hc_load"

\* C35: whatever the interleaving of the threads, a thread that caught the
\* failure of its operation while the breaker was HALF_OPEN leaves the
\* breaker OPEN with last_failure_time the time of that failure, and an OPEN
\* breaker always has a failure count of at least its threshold.
C35_TrialFailureReopens ==
  /\ [][\A i \in Threads :
          (FailureHandled(i) /\ threads[i].st = "HALF_OPEN")
            => /\ circuit_breaker'.state = "OPEN"
               /\ circuit_breaker'.last_failure_time = threads[i].clock]_vars
  /\ [](circuit_breaker.state = "OPEN"
          => circuit_breaker.failure_count
               >= circuit_breaker.failure_threshold)

\* The first half of C35 alone: the failed trial leaves the breaker OPEN.
C35_FailedTrialLeavesOpen ==
  [][\A i \in Threads :
       (FailureHandled(i) /\ threads[i].st = "HALF_OPEN")
         => circuit_breaker'.state = "OPEN"]_vars

\* The second half of C35 alone.
C35_OpenAtThreshold ==
  circuit_breaker.state = "OPEN"
    => circuit_breaker.failure_count >= circuit_breaker.failure_threshold

\* A thread whose trial failed while the breaker was HALF_OPEN is about to
\* run lines 46-49 on a breaker that another thread's trial has closed.
C35_TrialFailureOnClosed ==
  \E i \in Threads :
    /\ threads[i].pc = "cb_trip"
    /\ threads[i].st = "HALF_OPEN"
    /\ circuit_breaker.state = "CLOSED"
    /\ circuit_breaker.failure_count < circuit_breaker.failure_threshold

\* A thread that read OPEN at line 30 stores HALF_OPEN over the CLOSED state
\* and the zero count that another thread's trial has left meanwhile: the
\* breaker is HALF_OPEN with no failure counted.
HalfOpenOverClosed ==
  /\ circuit_breaker.state = "HALF_OPEN"
  /\ circuit_breaker.failure_count = 0
  /\ race_obs.successes >= 1

\* The trial of such a thread has failed on the reset count: the breaker
\* stays HALF_OPEN below its threshold.
HalfOpenAfterFailedTrial ==
  /\ circuit_breaker.state = "HALF_OPEN"
  /\ circuit_breaker.failure_count = 1
  /\ circuit_breaker.failure_threshold = 2
  /\ circuit_breaker.last_failure_time = 1
  /\ threads["t1"].pc = "hc_load"
  /\ race_obs = [failed_calls |-> 3, failed_attempts |-> 2, successes |-> 1]

\* A call reads the state of the breaker at its gate (line 30).
GatePassed(i) ==
  /\ threads[i].pc = "cb_state"
  /\ threads'[i].pc # "cb_state"

\* C39: a call that starts while the breaker is HALF_OPEN invokes its
\* operation at once, whatever the time since the last failure and however
\* many operations are in flight, and leaves the breaker as it is.
C39_NoProbeLimit ==
  [][\A i \in Threads :
       (GatePassed(i) /\ circuit_breaker.state = "HALF_OPEN")
         => /\ threads'[i].pc = "request"
            /\ circuit_breaker' = circuit_breaker]_vars

\* C39 witness: two operations in flight at once, the breaker HALF_OPEN.
C39_Witness ==
  /\ \A i \in Threads : threads[i].pc = "request"
  /\ circuit_breaker.state = "HALF_OPEN"

(***************************************************************************)
(* The saturation monitor Lambda                                           *)
(* (modules/aws/lambda/saturation-monitor/lambda_function.py):             *)
(* monitor_all_agents (lines 304-347) and fetch_agent_metrics (lines       *)
(* 159-226), one HTTP request per step.                                    *)
(***************************************************************************)
\* The values of DEPLOYMENT_MODE tried (line 169; 'hybrid' is the default,
\* and any other value takes the same branch as 'hybrid').
DeploymentModes == {"public", "private", "hybrid", "other"}

\* The agent tasks a discovery can return (lines 66-76): the private and the
\* public address of each, None when the task has none.
AgentInfos ==
  [private_ip : {NoMetrics, "10.0.1.100"}, public_ip : {NoMetrics, "54.1.2.3"}]

RECURSIVE AgentLists(_)
AgentLists(n) ==
  IF n = 0 THEN {<<>>}
  ELSE AgentLists(n - 1)
         \cup {Append(l, a) : l \in {m \in AgentLists(n - 1) : Len(m) = n - 1},
                              a \in AgentInfos}

\* Lines 168-185: the addresses to try, in order, for a deployment mode.
IpsToTry(mode, agent) ==
  LET pub == IF agent.public_ip # NoMetrics
               THEN <<[type |-> "public", address |-> agent.public_ip]>>
               ELSE <<>>
      prv == IF agent.private_ip # NoMetrics
               THEN <<[type |-> "private", address |-> agent.private_ip]>>
               ELSE <<>>
  IN IF mode = "public" THEN pub
     ELSE IF mode = "private" THEN prv
     ELSE pub \o prv

\* Lines 188-193: the endpoints tried on each address, in order.
endpoint_patterns ==
  << [path |-> "actuator/info", port |-> 8080],
     [path |-> "metrics", port |-> 8000],
     [path |-> "actuator/metrics", port |-> 8080],
     [path |-> "actuator/health", port |-> 8080] >>

\* What urlopen and the decoding of the body can give (lines 204-217): a
\* status code with a body that is a JSON value or not JSON at all, or an
\* exception (URLError, HTTPError, timeout).
AgentDocuments ==
  {Obj([activeTaskCount |-> 5, agentStatus |-> "RUNNING"]),
   Obj([status |-> "UP"]), Obj(<<>>), Null}
Answers ==
  [raised : {FALSE}, code : {200, 204}, json : {TRUE}, doc : AgentDocuments]
    \cup [raised : {FALSE}, code : {200}, json : {FALSE}, doc : {Null}]
    \cup [raised : {TRUE}, code : {0}, json : {FALSE}, doc : {Null}]

\* Lines 205-210: the answer makes fetch_agent_metrics return its document.
Returns(answer) == ~answer.raised /\ answer.code = 200 /\ answer.json

\* bool(value) for a JSON value: None and the empty mapping are false.
Truthy(value) ==
  /\ value # Null
  /\ value.kind = "object" => DOMAIN value.fields # {}

\* Lines 304-320: the invocation starts, agents are discovered and counted.
MonitorStart(mode, agents) ==
  /\ monitor.pc = "idle"
  /\ monitor' =
       [MonitorIdle EXCEPT
          !.mode = mode, !.agents = agents,
          !.results.agents_discovered = Len(agents),
          !.pc = IF agents = <<>> THEN "done" ELSE "agent",
          !.index = IF agents = <<>> THEN 0 ELSE 1]
  /\ UNCHANGED <<now, cbVars, configVars, flagVars, cacheVars,
                 healthcheck_failures, fetchVars, drain, health_obs,
                 translatorVars, threadVars, backlog>>

MonitorStartAny ==
  \E mode \in DeploymentModes, agents \in AgentLists(MaxAgents) :
    MonitorStart(mode, agents)

\* Lines 323-326 and 161-193: fetch_agent_metrics is called for the next
\* agent; without any address it returns None at once (lines 164-166).
FetchAgentEnter ==
  /\ monitor.pc = "agent"
  /\ LET agent == monitor.agents[monitor.index]
     IN IF agent.private_ip = NoMetrics /\ agent.public_ip = NoMetrics
          THEN monitor' = [monitor EXCEPT !.pc = "returned",
                                          !.metrics_data = Null,
                                          !.ips_to_try = <<>>,
                                          !.tried = <<>>]
          ELSE monitor' = [monitor EXCEPT
                             !.pc = "try",
                             !.ips_to_try = IpsToTry(monitor.mode, agent),
                             !.ip = 1, !.ep = 1, !.tried = <<>>]
  /\ UNCHANGED <<now, cbVars, configVars, flagVars, cacheVars,
                 healthcheck_failures, fetchVars, drain, health_obs,
                 translatorVars, threadVars, backlog>>

\* FetchAgentTry that keeps looking when the document is empty or null.
FetchAgentTry_SkipEmpty(answer) ==
  /\ monitor.pc = "try"
  /\ monitor.ip <= Len(monitor.ips_to_try)
  /\ LET target == monitor.ips_to_try[monitor.ip]
         pattern == endpoint_patterns[monitor.ep]
         request == [type |-> target.type, address |-> target.address,
                     path |-> pattern.path, port |-> pattern.port,
                     answered |-> Returns(answer),
                     doc |-> IF Returns(answer) THEN answer.doc ELSE Null]
         tried == Append(monitor.tried, request)
     IN IF Returns(answer) /\ Truthy(answer.doc)
          THEN monitor' = [monitor EXCEPT !.pc = "returned",
                                          !.metrics_data = answer.doc,
                                          !.tried = tried]
          ELSE monitor' =
                 [monitor EXCEPT
                    !.tried = tried,
                    !.ep = IF @ < Len(endpoint_patterns) THEN @ + 1 ELSE 1,
                    !.ip = IF monitor.ep < Len(endpoint_patterns)
                             THEN @ ELSE @ + 1]
  /\ UNCHANGED <<now, cbVars, configVars, flagVars, cacheVars,
                 healthcheck_failures, fetchVars, drain, health_obs,
                 translatorVars, threadVars, backlog>>

\* Lines 195-217: one request to the next endpoint of the next address.  A
\* 200 with a JSON body ends the call with the decoded document; anything
\* else moves on.  tried lists the requests made by this call, each with
\* whether it was answered in that way and by which document.
FetchAgentTry(answer) ==
  /\ monitor.pc = "try"
  /\ monitor.ip <= Len(monitor.ips_to_try)
  /\ LET target == monitor.ips_to_try[monitor.ip]
         pattern == endpoint_patterns[monitor.ep]
         request == [type |-> target.type, address |-> target.address,
                     path |-> pattern.path, port |-> pattern.port,
                     answered |-> Returns(answer),
                     doc |-> IF Returns(answer) THEN answer.doc ELSE Null]
         tried == Append(monitor.tried, request)
     IN IF Returns(answer)
          THEN monitor' = [monitor EXCEPT !.pc = "returned",
                                          !.metrics_data = answer.doc,
                                          !.tried = tried]
          ELSE monitor' =
                 [monitor EXCEPT
                    !.tried = tried,
                    !.ep = IF @ < Len(endpoint_patterns) THEN @ + 1 ELSE 1,
                    !.ip = IF monitor.ep < Len(endpoint_patterns)
                             THEN @ ELSE @ + 1]
  /\ UNCHANGED <<now, cbVars, configVars, flagVars, cacheVars,
                 healthcheck_failures, fetchVars, drain, health_obs,
                 translatorVars, threadVars, backlog>>

FetchAgentTryAny == \E answer \in Answers : FetchAgentTry(answer)

\* Lines 219-226: every address and endpoint was tried (or there was no
\* address to try in this mode): None is returned.
FetchAgentExhausted ==
  /\ monitor.pc = "try"
  /\ monitor.ip > Len(monitor.ips_to_try)
  /\ monitor' = [monitor EXCEPT !.pc = "returned", !.metrics_data = Null]
  /\ UNCHANGED <<now, cbVars, configVars, flagVars, cacheVars,
                 healthcheck_failures, fetchVars, drain, health_obs,
                 translatorVars, threadVars, backlog>>

\* Lines 328-347: `if metrics_data:` publishes and counts the agent, then
\* the loop goes to the next agent or the results are returned.
MonitorAccount ==
  /\ monitor.pc = "returned"
  /\ LET counted == Truthy(monitor.metrics_data)
         last == monitor.index = Len(monitor.agents)
     IN monitor' =
          [monitor EXCEPT
             !.fetched = Append(@, monitor.metrics_data),
             !.published = IF counted THEN Append(@, monitor.index) ELSE @,
             !.results.agents_monitored = IF counted THEN @ + 1 ELSE @,
             !.results.metrics_published = IF counted THEN @ + 4 ELSE @,
             !.pc = IF last THEN "done" ELSE "agent",
             !.index = IF last THEN @ ELSE @ + 1]
  /\ UNCHANGED <<now, cbVars, configVars, flagVars, cacheVars,
                 healthcheck_failures, fetchVars, drain, health_obs,
                 translatorVars, threadVars, backlog>>

InitMonitor ==
  /\ now = 0
  /\ circuit_breaker =
       CircuitBreaker(DefaultFailureThreshold, DefaultRecoveryTimeout)
  /\ cb_last = NoCall
  /\ cb_hist = [failed |-> 0, succeeded |-> FALSE]
  /\ MAX_RETRY_ATTEMPTS = DefaultMaxRetryAttempts
  /\ RETRY_DELAY = DefaultRetryDelay
  /\ GRACE_PERIOD_SECONDS = DefaultGracePeriod
  /\ ModuleState
  /\ Alone

NextMonitor ==
  \/ MonitorStartAny
  \/ FetchAgentEnter
  \/ FetchAgentTryAny
  \/ FetchAgentExhausted
  \/ MonitorAccount

SpecMonitor == InitMonitor /\ [][NextMonitor]_vars

\* The requests fetch_agent_metrics may make for an agent, in order: the
\* addresses the mode allows, the public one first, and on each address the
\* four endpoints.
AddressTypes(mode) ==
  CASE mode = "public" -> <<"public">>
    [] mode = "private" -> <<"private">>
    [] OTHER -> <<"public", "private">>
AddressOf(agent, type) ==
  IF type = "public" THEN agent.public_ip ELSE agent.private_ip
FourEndpoints ==
  << <<"actuator/info", 8080>>, <<"metrics", 8000>>,
     <<"actuator/metrics", 8080>>, <<"actuator/health", 8080>> >>
RECURSIVE RequestsFor(_, _)
RequestsFor(agent, types) ==
  IF types = <<>> THEN <<>>
  ELSE (IF AddressOf(agent, Head(types)) = NoMetrics THEN <<>>
        ELSE [k \in 1..4 |->
                [type |-> Head(types),
                 address |-> AddressOf(agent, Head(types)),
                 path |-> FourEndpoints[k][1],
                 port |-> FourEndpoints[k][2]]])
       \o RequestsFor(agent, Tail(types))
SameRequest(made, expected) ==
  /\ made.type = expected.type /\ made.address = expected.address
  /\ made.path = expected.path /\ made.port = expected.port

\* C32: fetch_agent_metrics makes no request for an agent without address;
\* otherwise its requests are, in order, those of the addresses its mode
\* allows (public first) with the four endpoints on each; it stops at the
\* first request answered 200 with a JSON body and returns that document,
\* and returns None when no request was answered so.
C32_FirstAnswerReturned ==
  monitor.pc \in {"try", "returned"}
  => LET agent == monitor.agents[monitor.index]
         expected == RequestsFor(agent, AddressTypes(monitor.mode))
         made == monitor.tried
         n == Len(made)
     IN /\ (agent.private_ip = NoMetrics /\ agent.public_ip = NoMetrics)
             => (made = <<>> /\ monitor.pc = "returned"
                   /\ monitor.metrics_data = Null)
        /\ n <= Len(expected)
        /\ \A k \in 1..n : SameRequest(made[k], expected[k])
        /\ \A k \in 1..n : made[k].answered => k = n
        /\ monitor.pc = "try" => \A k \in 1..n : ~made[k].answered
        /\ monitor.pc = "returned"
             => IF n > 0 /\ made[n].answered
                  THEN monitor.metrics_data = made[n].doc
                  ELSE n = Len(expected) /\ monitor.metrics_data = Null

\* C32 witness: in hybrid mode the four endpoints of the public address gave
\* nothing and the second endpoint of the private address answered; its
\* document is returned after six requests.
C32_Witness ==
  /\ monitor.pc = "returned"
  /\ monitor.mode = "hybrid"
  /\ Len(monitor.tried) = 6
  /\ monitor.tried[6].type = "private"
  /\ monitor.tried[6].path = "metrics" /\ monitor.tried[6].port = 8000
  /\ monitor.tried[6].answered
  /\ monitor.metrics_data = monitor.tried[6].doc
  /\ Truthy(monitor.metrics_data)

\* Every request failed: None after eight requests.
C32_AllFailed ==
  /\ monitor.pc = "returned"
  /\ Len(monitor.tried) = 8
  /\ ~monitor.tried[8].answered
  /\ monitor.metrics_data = Null

\* The agents whose fetch_agent_metrics returned something other than None.
ReturnedMetrics ==
  {k \in DOMAIN monitor.fetched : monitor.fetched[k] # Null}

\* C31: the results of monitor_all_agents: agents_discovered is the number
\* of agents discovered, agents_monitored the number of agents for which
\* fetch_agent_metrics returned metrics (None is skipped without an error),
\* metrics_published four times agents_monitored; agents_monitored never
\* exceeds agents_discovered and all are 0 with no agent.
C31_ResultCounts ==
  /\ monitor.results.agents_monitored <= monitor.results.agents_discovered
  /\ monitor.results.metrics_published
       = 4 * monitor.results.agents_monitored
  /\ monitor.results.errors = 0
  /\ monitor.pc = "done"
       => /\ monitor.results.agents_discovered = Len(monitor.agents)
          /\ Len(monitor.fetched) = Len(monitor.agents)
          /\ monitor.results.agents_monitored = Cardinality(ReturnedMetrics)
          /\ monitor.agents = <<>>
               => /\ monitor.results.agents_monitored = 0
                  /\ monitor.results.metrics_published = 0

\* The counts of C31 with 'returned metrics' read as the test of line 328:
\* the agents whose result is true as a condition.
C31_CountsOfTruthy ==
  /\ monitor.results.agents_monitored <= monitor.results.agents_discovered
  /\ monitor.results.metrics_published
       = 4 * monitor.results.agents_monitored
  /\ monitor.results.errors = 0
  /\ monitor.pc = "done"
       => /\ monitor.results.agents_discovered = Len(monitor.agents)
          /\ monitor.results.agents_monitored
               = Cardinality({k \in DOMAIN monitor.fetched :
                                Truthy(monitor.fetched[k])})
          /\ monitor.published
               = SelectSeq([k \in DOMAIN monitor.fetched |-> k],
                           LAMBDA k : Truthy(monitor.fetched[k]))

\* An invocation ended with an agent that answered the empty document and
\* was not counted.
C31_EmptyDocumentSkipped ==
  /\ monitor.pc = "done"
  /\ \E k \in DOMAIN monitor.fetched : monitor.fetched[k] = Obj(<<>>)
  /\ monitor.results.agents_monitored < Cardinality(ReturnedMetrics)

====
